---- MODULE Spec2Model ----
(***************************************************************************)
(* A state-machine model of the kvs storage engine (src/engines/kvs.rs):   *)
(* the log segments, the shared index, the writer behind its mutex, the    *)
(* per-handle descriptor caches and the compaction protocol, interleaved   *)
(* at the granularity of the effects another thread can observe.           *)
(***************************************************************************)
EXTENDS Integers, Sequences, FiniteSets, TLC

\* ------------------------------------------------------------------ bounds
MaxOps == 3          \* set/remove calls issued over one run
MaxReopens == 1      \* close-and-reopen cycles of the directory
MaxFaults == 1       \* I/O failures the environment injects (SpecIO only)
BigLen == 1048576    \* length of the long value ("x" repeated BigLen times)
SmallLen == 1        \* length of the short value
MaxThreads == 2      \* largest argument of SharedQueueThreadPool::new
MaxJobs == 3         \* jobs submitted to the pool over one run
MaxSpawnFaults == 1  \* failures of thread::Builder::spawn
MaxConns == 2        \* connections made to the server over one run
MaxFrames == 2       \* request frames the clients send over one run
MaxNetFaults == 1    \* socket errors the environment injects
MaxClients == 1      \* peers of the server in SpecPipeline and SpecClient
MaxStarts == 3       \* starts of kvs-server in one directory

\* ------------------------------------------------------------- constants
COMPACTION_THRESHOLD == 1048576

Threads == {"t1", "t2"}
NoThread == "none"
KeySeq == <<"a", "b">>          \* the keys, in the SkipMap's iteration order
Keys == {KeySeq[i] : i \in 1..Len(KeySeq)}
Values == {[ch |-> "x", n |-> BigLen], [ch |-> "y", n |-> SmallLen]}
NoValue == [ch |-> "", n |-> 0]

VARIABLES
    files,        \* gen -> [exists, recs, synced]: the <gen>.log inodes
    index,        \* the shared SkipMap: key -> OperationPos
    safe_point,   \* the shared AtomicU64
    lock,         \* holder of Mutex<KvStoreWriter>, or NoThread
    current_gen,  \* KvStoreWriter.current_gen
    uncompacted,  \* KvStoreWriter.uncompacted
    wgen,         \* the generation KvStoreWriter.writer appends to
    wpos,         \* KvStoreWriter.writer.pos
    wreaders,     \* KvStoreWriter.reader.readers (generations with a descriptor)
    readers,      \* thread -> KvStore.reader.readers of that thread's handle
    pc,           \* thread -> position in the operation it runs
    cur,          \* thread -> the call it runs: [op, key, value]
    op_pos,       \* thread -> the OperationPos a get has looked up
    comp,         \* locals of compact(): [gen, new_pos, next]
    result,       \* thread -> result of its last call
    kvmap,        \* history: the map the acknowledged writes imply
    obs,          \* history: thread -> what its running get may rightly return
    cview,        \* history: every key's get result when compaction started
    wview,        \* history: every key's get result when the writer lock was taken
    wsnap,        \* history: the writer's state when the writer lock was taken
    reopened,     \* history: view before the last close, once reopened
    opsLeft, reopensLeft, faultsLeft,
    \* SharedQueueThreadPool (thread_pool/shared_queue.rs)
    threads,      \* the argument of SharedQueueThreadPool::new
    new_pc,       \* position of SharedQueueThreadPool::new
    task_sender,  \* the Sender of the channel: "none", "alive" or "dropped"
    receivers,    \* number of Receiver clones of the channel that exist
    queue,        \* the messages in the channel, oldest first
    worker,       \* thread id -> position of that thread in run_tasks
    task,         \* thread id -> the job the thread is running
    job,          \* history: job id -> [kind, state]
    spawnFaults,  \* thread::Builder::spawn failures still to come
    \* KvsServer (server.rs)
    spc,          \* position of the thread that runs KvsServer::run
    stream,       \* the connection KvsServer::run has accepted
    conns,        \* connection id -> [state, inbox, outbox, sent, eof]
    listener,     \* the connections waiting in the listener's backlog
    run_result,   \* what KvsServer::run returned
    netFaults,    \* socket errors still to come
    \* the launcher (bin/kvs-server.rs)
    engine_file,  \* the .engine file of the directory: [exists, bytes]
    data,         \* the backends that have opened their files in the directory
    lpc,          \* position of the kvs-server process in main and run
    cli,          \* cli.engine of the process
    cur_engine,   \* the local cur_engine of main
    chosen,       \* the local engine of main, the argument of run
    exit_code,    \* how the last process ended
    backend,      \* history: the backend the last process to open one has opened
    startsLeft    \* starts of kvs-server still to come

engine == <<files, index, safe_point, current_gen, uncompacted, wgen, wpos, wreaders>>
caller == <<pc, cur, op_pos, result>>
history == <<kvmap, obs, cview, wview, wsnap, reopened>>
budget == <<opsLeft, reopensLeft, faultsLeft>>

store == <<engine, lock, readers, comp, caller, history, budget>>
pool == <<threads, new_pc, task_sender, receivers, queue, worker, task, job, spawnFaults>>
server == <<spc, stream, conns, listener, run_result, netFaults>>
launcher == <<engine_file, data, lpc, cli, cur_engine, chosen, exit_code, backend,
             startsLeft>>

vars == <<store, pool, server, launcher>>

\* ------------------------------------------------------- records and files
SetOp(k, v) == [type |-> "Set", key |-> k, value |-> v]
RmOp(k) == [type |-> "Rm", key |-> k, value |-> NoValue]
NoOp == [type |-> "None", key |-> "", value |-> NoValue]

\* Byte length of serde_json's encoding of an Operation (#[serde(tag = "type")]):
\* {"type":"Set","key":"K","value":"V"} and {"type":"Rm","key":"K"}; keys are
\* one character long.
SerLen(op) ==
    IF op.type = "Set" THEN 34 + 1 + op.value.n ELSE 22 + 1

\* What a file holds for one serialized operation: the operation and the number
\* of its bytes that were written (fewer than SerLen when the write was cut).
Entry(op, n) == [op |-> op, len |-> n]
Whole(e) == e.len = SerLen(e.op)

RECURSIVE Offset(_, _)
\* Byte offset of the i-th entry of recs (i = Len+1: the total size).
Offset(recs, i) == IF i <= 1 THEN 0 ELSE Offset(recs, i - 1) + recs[i - 1].len

NewFile == [exists |-> TRUE, recs |-> <<>>, synced |-> 0]
FileExists(g) == g \in DOMAIN files /\ files[g].exists
\* Bytes of generation g that have reached the file (the rest sits in a BufWriter).
FileSize(g) == Offset(files[g].recs, files[g].synced + 1)

OperationPos(g, start, end) == [gen |-> g, pos |-> start, len |-> end - start]
NoPos == [gen |-> 0, pos |-> 0, len |-> 0]

Ok == [tag |-> "Ok", val |-> NoValue, err |-> ""]
OkNone == [tag |-> "OkNone", val |-> NoValue, err |-> ""]
OkSome(v) == [tag |-> "OkSome", val |-> v, err |-> ""]
Err(e) == [tag |-> "Err", val |-> NoValue, err |-> e]
NoResult == [tag |-> "NoResult", val |-> NoValue, err |-> ""]

\* reader.seek(pos); reader.take(len); serde_json::from_reader: the operation
\* encoded by exactly the bytes [pos, pos+len) of generation g, or a decoding
\* error when the file ends early or the bytes are not one whole record.
ReadAt(p) ==
    LET recs == files[p.gen].recs
        hit == {i \in 1..Len(recs) : Offset(recs, i) = p.pos}
    IN  IF p.pos + p.len > FileSize(p.gen) THEN [res |-> Err("Serde"), op |-> NoOp]
        ELSE IF \E i \in hit : Whole(recs[i]) /\ recs[i].len = p.len
             THEN [res |-> Ok, op |-> recs[CHOOSE i \in hit : TRUE].op]
             ELSE [res |-> Err("Serde"), op |-> NoOp]

\* KvStoreReader::close_stale_handles on a descriptor cache.
CloseStale(cache) == {g \in cache : safe_point <= g}

\* The part of KvStoreReader::read_and after the eviction: open the segment
\* unless a descriptor is cached, then seek and read.
OpenAndRead(cache, p) ==
    IF p.gen \notin cache /\ ~FileExists(p.gen)
    THEN [cache |-> cache, res |-> Err("Io"), op |-> NoOp]
    ELSE [cache |-> cache \cup {p.gen}, res |-> ReadAt(p).res, op |-> ReadAt(p).op]

\* KvStore::get's decoding of what read_operation returned.
GetResult(r) ==
    IF r.res.tag = "Err" THEN r.res
    ELSE IF r.op.type = "Set" THEN OkSome(r.op.value)
    ELSE Err("UnexpectedCommandType")

\* The result of a whole get(k) run without interruption on a handle with the
\* given descriptor cache.
EngineGet(cache, k) ==
    IF k \notin DOMAIN index THEN OkNone
    ELSE GetResult(OpenAndRead(CloseStale(cache), index[k]))

View == [k \in Keys |-> EngineGet({}, k)]
NoView == [k \in Keys |-> NoResult]

\* -------------------------------------------------------------- history
GetPcs == {"get_evict", "get_read", "get_ret"}
CompactPcs == {"compact_copy", "compact_publish", "compact_delete"}
WritePcs == {"set_append", "set_index", "rm_append", "rm_index", "compact_create",
             "write_ret"} \cup CompactPcs

NoObs == [expect |-> NoResult, writes |-> {}, compact |-> FALSE]
NoComp == [gen |-> 0, new_pos |-> 0, next |-> 0]
NoCall == [op |-> "none", key |-> "", value |-> NoValue]
EmptyIndex == [k \in {} |-> NoPos]
NoSnap == [index |-> EmptyIndex, uncompacted |-> 0, current_gen |-> 0,
           sizes |-> [g \in {} |-> 0]]
Sizes == [g \in DOMAIN files |-> Len(files[g].recs)]
Snap == [index |-> index, uncompacted |-> uncompacted, current_gen |-> current_gen,
         sizes |-> Sizes]

\* What a get returns for the key of the write w once w is applied.
Binding(w) == IF w.op = "set" THEN OkSome(w.value) ELSE OkNone

Compacting == lock # NoThread /\ pc[lock] \in CompactPcs

\* A get of key k starts: the binding the acknowledged writes give k, and the
\* write call that is running.
ObsStart(k) ==
    [expect |-> kvmap[k],
     writes |-> IF lock # NoThread THEN {cur[lock]} ELSE {},
     compact |-> Compacting]

\* A write call w starts on thread t: the running gets overlap it.
ObsWrite(t, w) ==
    [u \in Threads |->
        IF u # t /\ pc[u] \in GetPcs
        THEN [obs[u] EXCEPT !.writes = @ \cup {w}]
        ELSE obs[u]]

\* A compaction starts: the running gets overlap it.
ObsCompact ==
    [u \in Threads |->
        IF pc[u] \in GetPcs THEN [obs[u] EXCEPT !.compact = TRUE] ELSE obs[u]]

\* ------------------------------------------------------------------ get
\* KvStore::get, the index lookup (kvs.rs:81); a miss yields Ok(None) (kvs.rs:88).
GetLookup(t, k) ==
    /\ pc[t] = "idle"
    /\ cur' = [cur EXCEPT ![t] = [op |-> "get", key |-> k, value |-> NoValue]]
    /\ obs' = [obs EXCEPT ![t] = ObsStart(k)]
    /\ IF k \in DOMAIN index
       THEN /\ op_pos' = [op_pos EXCEPT ![t] = index[k]]
            /\ pc' = [pc EXCEPT ![t] = "get_evict"]
            /\ result' = result
       ELSE /\ op_pos' = op_pos
            /\ pc' = [pc EXCEPT ![t] = "get_ret"]
            /\ result' = [result EXCEPT ![t] = OkNone]
    /\ reopened' = NoView
    /\ UNCHANGED <<engine, lock, readers, comp, kvmap, cview, wview, wsnap, budget>>

\* A sweep that waits for the writer lock.
GetEvictLocked(t) ==
    /\ lock = NoThread
    /\ pc[t] = "get_evict"
    /\ readers' = [readers EXCEPT ![t] = {g \in readers[t] : safe_point <= g}]
    /\ pc' = [pc EXCEPT ![t] = "get_read"]
    /\ UNCHANGED <<engine, lock, comp, cur, op_pos, result, history, budget>>

\* KvStoreReader::read_and, the eviction sweep (kvs.rs:136).
GetEvict(t) ==
    /\ pc[t] = "get_evict"
    /\ readers' = [readers EXCEPT ![t] = CloseStale(readers[t])]
    /\ pc' = [pc EXCEPT ![t] = "get_read"]
    /\ UNCHANGED <<engine, lock, comp, cur, op_pos, result, history, budget>>

\* A get whose descriptor cache is shared by every handle.
GetReadShared(t) ==
    /\ pc[t] = "get_read"
    /\ LET r == OpenAndRead(readers[t], op_pos[t])
       IN  /\ readers' = [u \in Threads |-> r.cache]
           /\ result' = [result EXCEPT ![t] = GetResult(r)]
    /\ pc' = [pc EXCEPT ![t] = "get_ret"]
    /\ UNCHANGED <<engine, lock, comp, cur, op_pos, history, budget>>

\* KvStoreReader::read_and: open or reuse the descriptor, seek, read, decode
\* (kvs.rs:138-146, kvs.rs:82-86).
GetRead(t) ==
    /\ pc[t] = "get_read"
    /\ LET r == OpenAndRead(readers[t], op_pos[t])
       IN  /\ readers' = [readers EXCEPT ![t] = r.cache]
           /\ result' = [result EXCEPT ![t] = GetResult(r)]
    /\ pc' = [pc EXCEPT ![t] = "get_ret"]
    /\ UNCHANGED <<engine, lock, comp, cur, op_pos, history, budget>>

\* get hands its result to the caller.
GetReturn(t) ==
    /\ pc[t] = "get_ret"
    /\ pc' = [pc EXCEPT ![t] = "idle"]
    /\ cur' = [cur EXCEPT ![t] = NoCall]
    /\ op_pos' = [op_pos EXCEPT ![t] = NoPos]
    /\ result' = [result EXCEPT ![t] = NoResult]
    /\ obs' = [obs EXCEPT ![t] = NoObs]
    /\ UNCHANGED <<engine, lock, readers, comp, kvmap, cview, wview, wsnap, reopened,
                   budget>>

\* --------------------------------------------------------------- writer
\* A lock that is granted to every caller.
LockAlwaysFree == TRUE

\* Mutex::lock returns only when no other thread holds the guard.
LockFree == lock = NoThread

\* A call of KvStore::set or KvStore::remove takes the writer lock
\* (kvs.rs:94, kvs.rs:99).
Acquire(t, call, first) ==
    /\ pc[t] = "idle"
    /\ LockFree
    /\ opsLeft > 0
    /\ opsLeft' = opsLeft - 1
    /\ lock' = t
    /\ cur' = [cur EXCEPT ![t] = call]
    /\ pc' = [pc EXCEPT ![t] = first]
    /\ obs' = ObsWrite(t, call)
    /\ wview' = View
    /\ wsnap' = Snap
    /\ reopened' = NoView
    /\ UNCHANGED <<engine, readers, comp, op_pos, result, kvmap, cview, reopensLeft,
                   faultsLeft>>

SetLock(t, k, v) == Acquire(t, [op |-> "set", key |-> k, value |-> v], "set_append")
RemoveLock(t, k) == Acquire(t, [op |-> "rm", key |-> k, value |-> NoValue], "rm_append")

\* KvStoreWriter::set or remove returns r while the caller still holds the guard.
Return(t, r) ==
    /\ pc' = [pc EXCEPT ![t] = "write_ret"]
    /\ result' = [result EXCEPT ![t] = r]
    /\ kvmap' = IF r.tag = "Ok" THEN [kvmap EXCEPT ![cur[t].key] = Binding(cur[t])]
                ELSE kvmap

\* KvStore::set or remove returns to its caller: the MutexGuard is dropped.
WriteReturn(t) ==
    /\ pc[t] = "write_ret"
    /\ pc' = [pc EXCEPT ![t] = "idle"]
    /\ lock' = NoThread
    /\ cur' = [cur EXCEPT ![t] = NoCall]
    /\ op_pos' = [op_pos EXCEPT ![t] = NoPos]
    /\ result' = [result EXCEPT ![t] = NoResult]
    /\ comp' = NoComp
    /\ cview' = NoView
    /\ wview' = NoView
    /\ wsnap' = NoSnap
    /\ UNCHANGED <<engine, readers, kvmap, obs, reopened, budget>>

\* serde_json::to_writer then flush on the writer's segment: the record is
\* appended and every byte written so far reaches the file.
AppendFlushed(fs, g, op) ==
    [fs EXCEPT ![g] = [exists |-> fs[g].exists,
                       recs |-> Append(fs[g].recs, Entry(op, SerLen(op))),
                       synced |-> Len(fs[g].recs) + 1]]

\* A writer that never compacts.
NeedsCompactionNever(u) == FALSE

\* if self.uncompacted > COMPACTION_THRESHOLD { self.compact()?; }
NeedsCompaction(u) == u > COMPACTION_THRESHOLD

\* After the index update: compact, or return Ok(()).
AfterWrite(t, u) ==
    IF NeedsCompaction(u)
    THEN /\ pc' = [pc EXCEPT ![t] = "compact_create"]
         /\ UNCHANGED <<result, kvmap>>
    ELSE Return(t, Ok)

\* KvStoreWriter::set, kvs.rs:180-183.
SetAppend(t) ==
    /\ pc[t] = "set_append"
    /\ LET op == SetOp(cur[t].key, cur[t].value)
       IN  /\ files' = AppendFlushed(files, wgen, op)
           /\ wpos' = wpos + SerLen(op)
           /\ op_pos' = [op_pos EXCEPT ![t] = OperationPos(current_gen, wpos, wpos')]
    /\ pc' = [pc EXCEPT ![t] = "set_index"]
    /\ UNCHANGED <<index, safe_point, current_gen, uncompacted, wgen, wreaders, lock,
                   readers, comp, cur, result, history, budget>>

\* An insert that keeps the entry a key already has.
IndexInsertIfAbsent(idx, k, p) ==
    [x \in DOMAIN idx \cup {k} |-> IF x \in DOMAIN idx THEN idx[x] ELSE p]

\* The index after SkipMap::insert (kvs.rs:188-189).
IndexInsert(idx, k, p) == [x \in DOMAIN idx \cup {k} |-> IF x = k THEN p ELSE idx[x]]
\* The index after SkipMap::remove (kvs.rs:205).
IndexRemove(idx, k) == [x \in DOMAIN idx \ {k} |-> idx[x]]

\* A set that counts no dead bytes.
SetDeadNone(idx, k) == 0

\* The dead bytes set accounts for: the record it supersedes (kvs.rs:185-187).
SetDead(idx, k) == IF k \in DOMAIN idx THEN idx[k].len ELSE 0

\* KvStoreWriter::set, kvs.rs:184-195.
SetIndex(t) ==
    /\ pc[t] = "set_index"
    /\ uncompacted' = uncompacted + SetDead(index, cur[t].key)
    /\ index' = IndexInsert(index, cur[t].key, op_pos[t])
    /\ AfterWrite(t, uncompacted')
    /\ UNCHANGED <<files, safe_point, current_gen, wgen, wpos, wreaders, lock, readers,
                   comp, cur, op_pos, obs, cview, wview, wsnap, reopened, budget>>

\* A remove that never takes the KeyNotFound branch.
ContainsAlways(idx, k) == TRUE

\* contains_key in KvStoreWriter::remove (kvs.rs:199).
Contains(idx, k) == k \in DOMAIN idx

\* KvStoreWriter::remove, kvs.rs:199-203, and its KeyNotFound branch, kvs.rs:215-217.
RmAppend(t) ==
    /\ pc[t] = "rm_append"
    /\ IF Contains(index, cur[t].key)
       THEN /\ files' = AppendFlushed(files, wgen, RmOp(cur[t].key))
            /\ wpos' = wpos + SerLen(RmOp(cur[t].key))
            /\ op_pos' = [op_pos EXCEPT ![t] = OperationPos(current_gen, wpos, wpos')]
            /\ pc' = [pc EXCEPT ![t] = "rm_index"]
            /\ UNCHANGED <<result, kvmap>>
       ELSE /\ Return(t, Err("KeyNotFound"))
            /\ UNCHANGED <<files, wpos, op_pos>>
    /\ UNCHANGED <<index, safe_point, current_gen, uncompacted, wgen, wreaders, lock,
                   readers, comp, cur, obs, cview, wview, wsnap, reopened, budget>>

\* KvStoreWriter::remove, kvs.rs:204-214.
RmIndex(t) ==
    /\ pc[t] = "rm_index"
    /\ uncompacted' = uncompacted + index[cur[t].key].len + op_pos[t].len
    /\ index' = IndexRemove(index, cur[t].key)
    /\ AfterWrite(t, uncompacted')
    /\ UNCHANGED <<files, safe_point, current_gen, wgen, wpos, wreaders, lock, readers,
                   comp, cur, op_pos, obs, cview, wview, wsnap, reopened, budget>>

\* ----------------------------------------------------------- compaction
\* new_log_file: OpenOptions::new().create(true).append(true).open(<gen>.log).
new_log_file(fs, g) ==
    IF g \in DOMAIN fs /\ fs[g].exists THEN fs
    ELSE [x \in DOMAIN fs \cup {g} |-> IF x = g THEN NewFile ELSE fs[x]]

\* A BufWriter is flushed (explicitly, or when it is dropped): every byte
\* written to generation g is in the file.
Flushed(fs, g) == [fs EXCEPT ![g].synced = Len(fs[g].recs)]

Min(S) == CHOOSE x \in S : \A y \in S : x <= y
Max(S) == CHOOSE x \in S : \A y \in S : y <= x

\* A loop that passes over the first entry of the index.
RemainingButFirst == {i \in (comp.next + 1)..Len(KeySeq) : KeySeq[i] \in DOMAIN index}

\* The keys the loop of compact() has still to visit: the SkipMap iterator
\* yields the entries in ascending key order.
Remaining == {i \in comp.next..Len(KeySeq) : KeySeq[i] \in DOMAIN index}

\* A deletion that takes the output segment of the compaction as well.
StaleGensAndOutput == {g \in DOMAIN files : files[g].exists /\ g <= comp.gen}

\* A deletion that spares the segment the writer appended to.
StaleGensButLast == {g \in DOMAIN files : files[g].exists /\ g < comp.gen - 1}

\* The generations compact() deletes: those sorted_gen_list finds below the
\* compaction generation (kvs.rs:249-251).
StaleGens == {g \in DOMAIN files : files[g].exists /\ g < comp.gen}

\* KvStoreWriter::compact, kvs.rs:223-229: the generation numbers are taken and
\* both segments are created.
CompactCreate(t) ==
    /\ pc[t] = "compact_create"
    /\ comp' = [gen |-> current_gen + 1, new_pos |-> 0, next |-> 1]
    /\ current_gen' = current_gen + 2
    /\ wgen' = current_gen'
    /\ files' = new_log_file(new_log_file(Flushed(files, wgen), current_gen + 2),
                             current_gen + 1)
    /\ wpos' = 0
    /\ pc' = [pc EXCEPT ![t] = "compact_copy"]
    /\ cview' = View
    /\ obs' = ObsCompact
    /\ UNCHANGED <<index, safe_point, uncompacted, wreaders, lock, readers, cur, op_pos,
                   result, kvmap, wview, wsnap, reopened, budget>>

\* A relocation that does not advance the offset in the output segment.
RelocatedAtStart(g, new_pos, len) == OperationPos(g, 0, len)

\* The index entry compact() stores for a record it copied (kvs.rs:234).
Relocated(g, new_pos, len) == OperationPos(g, new_pos, new_pos + len)

\* The output segment after io::copy wrote one record to its BufWriter, which
\* has handed the first n records to the file.
Copied(fs, g, e, n) ==
    [fs EXCEPT ![g] = [exists |-> fs[g].exists, recs |-> Append(fs[g].recs, e),
                       synced |-> n]]

\* One iteration of the copy loop, kvs.rs:230-236: the record is read through the
\* writer's own reader and written to the BufWriter of the output segment, which
\* hands a prefix of what it holds to the file; the index entry is replaced.
CompactCopy(t) ==
    /\ pc[t] = "compact_copy"
    /\ Remaining # {}
    /\ LET i == Min(Remaining)
           k == KeySeq[i]
           r == OpenAndRead(CloseStale(wreaders), index[k])
       IN  /\ wreaders' = r.cache
           /\ IF r.res.tag = "Err"
              THEN /\ Return(t, r.res)
                   /\ files' = Flushed(files, comp.gen)
                   /\ UNCHANGED <<index, comp>>
              ELSE /\ \E n \in files[comp.gen].synced..(Len(files[comp.gen].recs) + 1) :
                        files' = Copied(files, comp.gen, Entry(r.op, index[k].len), n)
                   /\ index' = IndexInsert(index, k,
                                           Relocated(comp.gen, comp.new_pos, index[k].len))
                   /\ comp' = [comp EXCEPT !.new_pos = @ + index[k].len, !.next = i + 1]
                   /\ UNCHANGED <<pc, result, kvmap>>
    /\ UNCHANGED <<safe_point, current_gen, uncompacted, wgen, wpos, lock, readers, cur,
                   op_pos, obs, cview, wview, wsnap, reopened, budget>>

\* compaction_writer.flush(), kvs.rs:237.
CompactFlush(t) ==
    /\ pc[t] = "compact_copy"
    /\ Remaining = {}
    /\ files' = Flushed(files, comp.gen)
    /\ pc' = [pc EXCEPT ![t] = "compact_publish"]
    /\ UNCHANGED <<index, safe_point, current_gen, uncompacted, wgen, wpos, wreaders,
                   lock, readers, comp, cur, op_pos, result, history, budget>>

\* safe_point.store(compaction_gen) and the writer's own sweep, kvs.rs:239-242.
CompactPublish(t) ==
    /\ pc[t] = "compact_publish"
    /\ safe_point' = comp.gen
    /\ wreaders' = {g \in wreaders : safe_point' <= g}
    /\ pc' = [pc EXCEPT ![t] = "compact_delete"]
    /\ UNCHANGED <<files, index, current_gen, uncompacted, wgen, wpos, lock, readers,
                   comp, cur, op_pos, result, history, budget>>

\* fs::remove_file of one stale segment, kvs.rs:252-257.
CompactDelete(t) ==
    /\ pc[t] = "compact_delete"
    /\ StaleGens # {}
    /\ files' = [files EXCEPT ![Min(StaleGens)].exists = FALSE]
    /\ UNCHANGED <<index, safe_point, current_gen, uncompacted, wgen, wpos, wreaders,
                   lock, readers, comp, caller, history, budget>>

\* self.uncompacted = 0; Ok(()), kvs.rs:258-260, and with it set or remove.
CompactFinish(t) ==
    /\ pc[t] = "compact_delete"
    /\ StaleGens = {}
    /\ uncompacted' = 0
    /\ Return(t, Ok)
    /\ UNCHANGED <<files, index, safe_point, current_gen, wgen, wpos, wreaders, lock,
                   readers, comp, cur, op_pos, obs, cview, wview, wsnap, reopened, budget>>

\* ------------------------------------------------------------------ open
\* One record of load's loop (kvs.rs:338-356) on the replay state st.
LoadRecord(gen, recs, i, st) ==
    LET e == recs[i]
        pos == Offset(recs, i)
        new_pos == Offset(recs, i + 1)
        k == e.op.key
        old == IF k \in DOMAIN st.index THEN st.index[k].len ELSE 0
    IN  IF ~Whole(e) THEN [st EXCEPT !.err = TRUE]
        ELSE IF e.op.type = "Set"
        THEN [st EXCEPT !.index = IndexInsert(st.index, k, OperationPos(gen, pos, new_pos)),
                        !.uncompacted = @ + old]
        ELSE [st EXCEPT !.index = IndexRemove(st.index, k),
                        !.uncompacted = @ + old + (new_pos - pos)]

RECURSIVE LoadFrom(_, _, _, _)
LoadFrom(gen, recs, i, st) ==
    IF i > Len(recs) \/ st.err THEN st
    ELSE LoadFrom(gen, recs, i + 1, LoadRecord(gen, recs, i, st))

\* load (kvs.rs:330-358): replay one segment into the index.
load(gen, recs, st) == LoadFrom(gen, recs, 1, st)

\* A replay that takes the segments in descending order.
NextGenDescending(gens) == Max(gens)

\* The segment open replays next: gen_list is sorted ascending (kvs.rs:325).
NextGen(gens) == Min(gens)

RECURSIVE Replay(_, _, _)
\* The loop of KvStore::open over gen_list (kvs.rs:44-48).
Replay(fs, gens, st) ==
    IF gens = {} \/ st.err THEN st
    ELSE LET g == NextGen(gens)
         IN  Replay(fs, gens \ {g}, load(g, fs[g].recs, st))

\* An open that reuses the highest generation it found.
FirstGenReused(gens) == IF gens = {} THEN 1 ELSE Max(gens)

\* gen_list.last().unwrap_or(&0) + 1 (kvs.rs:50).
FirstGen(gens) == (IF gens = {} THEN 0 ELSE Max(gens)) + 1

Opener == "t1"   \* the thread holding the handle open returned; the others hold clones

\* Every handle is dropped (the writer's BufWriter flushes) and KvStore::open runs
\* on the directory again (kvs.rs:34-75).
Reopen ==
    /\ \A t \in Threads : pc[t] = "idle"
    /\ reopensLeft > 0
    /\ reopensLeft' = reopensLeft - 1
    /\ LET closed == Flushed(files, wgen)
           gens == {g \in DOMAIN closed : closed[g].exists}
           st == Replay(closed, gens,
                        [index |-> EmptyIndex, uncompacted |-> 0, err |-> FALSE])
       IN  /\ ~st.err
           /\ index' = st.index
           /\ uncompacted' = st.uncompacted
           /\ current_gen' = FirstGen(gens)
           /\ wgen' = current_gen'
           /\ files' = new_log_file(closed, current_gen')
           /\ readers' = [t \in Threads |-> IF t = Opener THEN gens ELSE {}]
    /\ wpos' = 0
    /\ safe_point' = 0
    /\ wreaders' = {}
    /\ reopened' = View
    /\ UNCHANGED <<lock, comp, caller, kvmap, obs, cview, wview, wsnap, opsLeft,
                   faultsLeft>>

\* ------------------------------------------------------- specifications
\* The thread ids a pool can come to use: one per worker of new and one per
\* replacement, and the ids of the jobs submitted to it.
PoolThreads == 1..(MaxThreads + MaxJobs)
JobIds == 1..MaxJobs
NoJob == 0
Conns == 1..MaxConns
NoConn == 0
Clients == 1..MaxClients
NoRequest == [type |-> "None", key |-> "", value |-> NoValue]
NoConnection ==
    [state |-> "none", inbox |-> <<>>, outbox |-> <<>>, sent |-> <<>>, eof |-> FALSE,
     call |-> NoRequest, decode |-> "", got |-> 0, replies |-> <<>>]

\* No thread pool has been constructed.
NoPool ==
    /\ threads = 0
    /\ new_pc = "none"
    /\ task_sender = "none"
    /\ receivers = 0
    /\ queue = <<>>
    /\ worker = [w \in PoolThreads |-> "none"]
    /\ task = [w \in PoolThreads |-> NoJob]
    /\ job = [j \in JobIds |-> [kind |-> "none", state |-> "none"]]
    /\ spawnFaults = 0

\* No server has been started.
NoServer ==
    /\ spc = "none"
    /\ stream = NoConn
    /\ conns = [c \in Conns |-> NoConnection]
    /\ listener = <<>>
    /\ run_result = NoResult
    /\ netFaults = 0

\* The values of Option<Engine> (kvs-server.rs:41-46).
Engines == {"Kvs", "Sled"}
NoEngine == "None"
NoFile == [exists |-> FALSE, bytes |-> <<>>]

\* No kvs-server process has been started in the directory.
NoLauncher ==
    /\ engine_file = NoFile
    /\ data = {}
    /\ lpc = "stopped"
    /\ cli = NoEngine
    /\ cur_engine = NoEngine
    /\ chosen = NoEngine
    /\ exit_code = "none"
    /\ backend = NoEngine
    /\ startsLeft = 0

\* What the engine's steps leave alone.
outside == <<pool, server, launcher>>

\* The engine right after KvStore::open on an empty directory.
InitEngine ==
    /\ files = [g \in {1} |-> NewFile]
    /\ index = EmptyIndex
    /\ safe_point = 0
    /\ lock = NoThread
    /\ current_gen = 1
    /\ uncompacted = 0
    /\ wgen = 1
    /\ wpos = 0
    /\ wreaders = {}
    /\ readers = [t \in Threads |-> {}]
    /\ pc = [t \in Threads |-> "idle"]
    /\ cur = [t \in Threads |-> NoCall]
    /\ op_pos = [t \in Threads |-> NoPos]
    /\ comp = NoComp
    /\ result = [t \in Threads |-> NoResult]
    /\ kvmap = [k \in Keys |-> OkNone]
    /\ obs = [t \in Threads |-> NoObs]
    /\ cview = NoView
    /\ wview = NoView
    /\ wsnap = NoSnap
    /\ reopened = NoView
    /\ opsLeft = MaxOps

Init == InitEngine /\ reopensLeft = 0 /\ faultsLeft = 0 /\ NoPool /\ NoServer /\ NoLauncher

\* The steps of a thread that runs a get.
Reads(t) ==
    \/ \E k \in Keys : GetLookup(t, k) /\ UNCHANGED outside
    \/ GetEvict(t) /\ UNCHANGED outside
    \/ GetRead(t) /\ UNCHANGED outside
    \/ GetReturn(t) /\ UNCHANGED outside

\* The steps of a thread that runs set or remove.
Writes(t) ==
    \/ \E k \in Keys, v \in Values : SetLock(t, k, v) /\ UNCHANGED outside
    \/ \E k \in Keys : RemoveLock(t, k) /\ UNCHANGED outside
    \/ SetAppend(t) /\ UNCHANGED outside
    \/ SetIndex(t) /\ UNCHANGED outside
    \/ RmAppend(t) /\ UNCHANGED outside
    \/ RmIndex(t) /\ UNCHANGED outside
    \/ CompactCreate(t) /\ UNCHANGED outside
    \/ CompactCopy(t) /\ UNCHANGED outside
    \/ CompactFlush(t) /\ UNCHANGED outside
    \/ CompactPublish(t) /\ UNCHANGED outside
    \/ CompactDelete(t) /\ UNCHANGED outside
    \/ CompactFinish(t) /\ UNCHANGED outside
    \/ WriteReturn(t) /\ UNCHANGED outside

Next == Reads(Opener) \/ \E t \in Threads : Writes(t)

\* Two threads that write through cloned handles, one of which also reads.
Spec == Init /\ [][Next]_vars

NextReaders == (\E t \in Threads : Reads(t)) \/ Writes(Opener)

\* Two threads that read through cloned handles, one of which also writes.
SpecReaders == Init /\ [][NextReaders]_vars

\* The steps that carry on a call that has started; which calls a client makes,
\* and when, is up to the client.
Running(t) ==
    \/ GetEvict(t) /\ UNCHANGED outside
    \/ GetRead(t) /\ UNCHANGED outside
    \/ GetReturn(t) /\ UNCHANGED outside
    \/ SetAppend(t) /\ UNCHANGED outside
    \/ SetIndex(t) /\ UNCHANGED outside
    \/ RmAppend(t) /\ UNCHANGED outside
    \/ RmIndex(t) /\ UNCHANGED outside
    \/ CompactCreate(t) /\ UNCHANGED outside
    \/ CompactCopy(t) /\ UNCHANGED outside
    \/ CompactFlush(t) /\ UNCHANGED outside
    \/ CompactPublish(t) /\ UNCHANGED outside
    \/ CompactDelete(t) /\ UNCHANGED outside
    \/ CompactFinish(t) /\ UNCHANGED outside
    \/ WriteReturn(t) /\ UNCHANGED outside

\* Two threads as in Spec, each of which finishes the call it has started, and
\* a reader that calls get again and again.
SpecFair ==
    /\ Init
    /\ [][Next]_vars
    /\ \A t \in Threads : WF_vars(Running(t))
    /\ WF_vars(Reads(Opener))

InitOpen == InitEngine /\ reopensLeft = MaxReopens /\ faultsLeft = 0 /\ NoPool /\ NoServer /\ NoLauncher

NextOpen == Reads(Opener) \/ Writes(Opener) \/ (Reopen /\ UNCHANGED outside)

\* One thread, and the directory closed and opened again between calls.
SpecOpen == InitOpen /\ [][NextOpen]_vars

\* ------------------------------------------------------------ I/O errors
\* An I/O call of the writer fails where the code propagates it with `?`.
Fault ==
    /\ faultsLeft > 0
    /\ faultsLeft' = faultsLeft - 1
    /\ UNCHANGED <<opsLeft, reopensLeft>>

\* serde_json::to_writer or flush fails in set or remove (kvs.rs:182-183,
\* kvs.rs:202-203): the BufWriter has taken n bytes of the record, none of which
\* is known to be in the file, and the call returns the error.
AppendFail(t) ==
    /\ \/ pc[t] = "set_append"
       \/ pc[t] = "rm_append" /\ Contains(index, cur[t].key)
    /\ Fault
    /\ LET op == IF cur[t].op = "set" THEN SetOp(cur[t].key, cur[t].value)
                 ELSE RmOp(cur[t].key)
       IN  \E n \in {SerLen(op) \div 2, SerLen(op)} :
              /\ files' = [files EXCEPT ![wgen].recs = Append(@, Entry(op, n))]
              /\ wpos' = wpos + n
    /\ Return(t, Err("Io"))
    /\ UNCHANGED <<index, safe_point, current_gen, uncompacted, wgen, wreaders, lock,
                   readers, comp, cur, op_pos, obs, cview, wview, wsnap, reopened>>

\* new_log_file fails in compact(), for the new current segment (kvs.rs:225,
\* after current_gen was raised and before self.writer is replaced) or for the
\* output segment (kvs.rs:227).
CompactCreateFail(t) ==
    /\ pc[t] = "compact_create"
    /\ Fault
    /\ current_gen' = current_gen + 2
    /\ \/ UNCHANGED <<files, wgen, wpos>>
       \/ /\ files' = new_log_file(Flushed(files, wgen), current_gen + 2)
          /\ wgen' = current_gen'
          /\ wpos' = 0
    /\ cview' = View
    /\ Return(t, Err("Io"))
    /\ UNCHANGED <<index, safe_point, uncompacted, wreaders, lock, readers, comp, cur,
                   op_pos, obs, wview, wsnap, reopened>>

\* read_and or io::copy fails in the copy loop (kvs.rs:231-233): the output
\* BufWriter is dropped, which flushes it, and compact() returns the error.
CompactCopyFail(t) ==
    /\ pc[t] = "compact_copy"
    /\ Remaining # {}
    /\ Fault
    /\ files' = Flushed(files, comp.gen)
    /\ Return(t, Err("Io"))
    /\ UNCHANGED <<index, safe_point, current_gen, uncompacted, wgen, wpos, wreaders,
                   lock, readers, comp, cur, op_pos, obs, cview, wview, wsnap, reopened>>

\* compaction_writer.flush() fails (kvs.rs:237); the drop of the BufWriter tries
\* once more, and may fail as well.
CompactFlushFail(t) ==
    /\ pc[t] = "compact_copy"
    /\ Remaining = {}
    /\ Fault
    /\ \/ files' = Flushed(files, comp.gen)
       \/ files' = files
    /\ Return(t, Err("Io"))
    /\ UNCHANGED <<index, safe_point, current_gen, uncompacted, wgen, wpos, wreaders,
                   lock, readers, comp, cur, op_pos, obs, cview, wview, wsnap, reopened>>

\* sorted_gen_list fails after the safe point was published (kvs.rs:239-249).
CompactListFail(t) ==
    /\ pc[t] = "compact_publish"
    /\ Fault
    /\ safe_point' = comp.gen
    /\ wreaders' = {g \in wreaders : safe_point' <= g}
    /\ Return(t, Err("Io"))
    /\ UNCHANGED <<files, index, current_gen, uncompacted, wgen, wpos, lock, readers,
                   comp, cur, op_pos, obs, cview, wview, wsnap, reopened>>

\* File::open, seek or the read fails in a get (kvs.rs:140-146), before or
\* after the descriptor was cached.
GetReadFail(t) ==
    /\ pc[t] = "get_read"
    /\ Fault
    /\ \/ readers' = readers
       \/ /\ FileExists(op_pos[t].gen)
          /\ readers' = [readers EXCEPT ![t] = @ \cup {op_pos[t].gen}]
    /\ result' = [result EXCEPT ![t] = Err("Io")]
    /\ pc' = [pc EXCEPT ![t] = "get_ret"]
    /\ UNCHANGED <<engine, lock, comp, cur, op_pos, history>>

Faults(t) ==
    \/ AppendFail(t) /\ UNCHANGED outside
    \/ CompactCreateFail(t) /\ UNCHANGED outside
    \/ CompactCopyFail(t) /\ UNCHANGED outside
    \/ CompactFlushFail(t) /\ UNCHANGED outside
    \/ CompactListFail(t) /\ UNCHANGED outside
    \/ GetReadFail(t) /\ UNCHANGED outside

InitIO == InitEngine /\ reopensLeft = 0 /\ faultsLeft = MaxFaults /\ NoPool /\ NoServer /\ NoLauncher

NextIO == Reads(Opener) \/ Writes(Opener) \/ Faults(Opener)

\* One thread, and an environment whose I/O calls may fail.
SpecIO == InitIO /\ [][NextIO]_vars

\* ---------------------------------------------------------------- claims
ExistingGens == {g \in DOMAIN files : files[g].exists}

\* C1: whenever no set or remove is running, a get of any key on any handle
\* returns the binding given by the acknowledged writes: Some(V) for the last
\* set(K, V) not followed by a remove, None otherwise, compactions included.
C1_MapBehaviour ==
    lock = NoThread =>
        \A k \in Keys, t \in Threads : EngineGet(readers[t], k) = kvmap[k]

\* A compaction has run, a key holds the short value and a get returns it.
C1_Witness ==
    /\ lock = NoThread
    /\ safe_point > 0
    /\ \E k \in Keys : /\ kvmap[k] = OkSome([ch |-> "y", n |-> SmallLen])
                       /\ EngineGet({}, k) = kvmap[k]

\* C2: a remove returns KeyNotFound exactly when its key was absent from the
\* index when it took the writer lock, and then it appends no record and leaves
\* the index, the dead-byte counter and current_gen as they were.
C2_RemoveKeyNotFound ==
    \A t \in Threads :
        (cur[t].op = "rm" /\ pc[t] \in WritePcs \ {"rm_append"}) =>
            LET absent == cur[t].key \notin DOMAIN wsnap.index
            IN  /\ pc[t] = "write_ret" =>
                    ((result[t] = Err("KeyNotFound")) <=> absent)
                /\ absent => (pc[t] = "write_ret" /\ Snap = wsnap)

\* A remove of an absent key has returned KeyNotFound while another key is bound.
C2_Witness ==
    \E t \in Threads :
        /\ pc[t] = "write_ret"
        /\ cur[t].op = "rm"
        /\ result[t] = Err("KeyNotFound")
        /\ index # EmptyIndex

\* C3: right after the directory is closed and opened again, a get of any key
\* returns what it returned before the close, which is the binding given by
\* the acknowledged writes.
C3_Persistence ==
    reopened # NoView =>
        \A k \in Keys, t \in Threads :
            /\ EngineGet(readers[t], k) = reopened[k]
            /\ EngineGet(readers[t], k) = kvmap[k]

\* The directory was reopened with three segments on disk (a compaction ran
\* before the close) and a key bound.
C3_Witness ==
    /\ reopened # NoView
    /\ Cardinality(ExistingGens) >= 3
    /\ \E k \in Keys : reopened[k].tag = "OkSome"

\* The writes that overlapped the get of thread t leave its key alone.
Clean(t) == \A w \in obs[t].writes : w.key # cur[t].key

\* C4: a get that starts after a write to its key has returned, and that no
\* later write to that key overlaps, returns the binding that write gave.
C4_Linearizable ==
    \A t \in Threads :
        (pc[t] = "get_ret" /\ Clean(t)) => result[t] = obs[t].expect

\* C5: a get that overlaps only set calls on its own key returns the binding
\* from before them or the value of one of them, never an error.
C5_NoTornRead ==
    \A t \in Threads :
        (/\ pc[t] = "get_ret"
         /\ obs[t].writes # {}
         /\ \A w \in obs[t].writes : w.op = "set" /\ w.key = cur[t].key)
        => result[t] \in {obs[t].expect} \cup {OkSome(w.value) : w \in obs[t].writes}

\* C6: a get of a bound key that overlaps a compaction, and no write to its
\* key, returns Ok(Some(V)).
C6_GetDuringCompaction ==
    \A t \in Threads :
        (pc[t] = "get_ret" /\ obs[t].compact /\ Clean(t) /\ obs[t].expect.tag = "OkSome")
        => result[t] = obs[t].expect

\* C7: a thread that is not inside set or remove can always take the next step
\* of a get, whoever holds the writer lock and whatever the other threads do.
C7_ReadersNeverBlocked ==
    \A t \in Threads : pc[t] \notin WritePcs => ENABLED Reads(t)

\* A thread is between the steps of a get while the other thread compacts.
C7_Witness ==
    \E t \in Threads :
        /\ pc[t] \in {"get_evict", "get_read"}
        /\ lock \notin {NoThread, t}
        /\ pc[lock] \in CompactPcs

\* C8: a thread inside set, remove or compaction holds the writer lock and no
\* other thread is inside one; compaction runs only inside a set or a remove.
C8_WriterExclusion ==
    \A t \in Threads :
        pc[t] \in WritePcs =>
            /\ lock = t
            /\ \A u \in Threads \ {t} : pc[u] \notin WritePcs
            /\ cur[t].op \in {"set", "rm"}

\* A thread compacts inside a remove.
C8_Witness ==
    \E t \in Threads :
        /\ pc[t] \in CompactPcs
        /\ cur[t].op = "rm"
        /\ lock = t

\* The compaction of thread t has deleted the stale segments.
Compacted(t) ==
    \/ pc[t] = "compact_delete" /\ StaleGens = {}
    \/ pc[t] = "write_ret" /\ cview # NoView

\* C9: once a compaction is through, a get of any key on any handle returns
\* what it returned when the compaction started.
C9_CompactionKeepsState ==
    \A t \in Threads :
        Compacted(t) => \A k \in Keys, u \in Threads : EngineGet(readers[u], k) = cview[k]

\* A compaction that relocated two bound keys is through.
C9_Witness ==
    \E t \in Threads :
        /\ Compacted(t)
        /\ \A k \in Keys : cview[k].tag = "OkSome"

\* C10: a set or remove that returns an error leaves every get as it was when
\* the call began; one that returns Ok has changed the binding of its key, and
\* of no other key, to the one it wrote.
C10_AtomicWrites ==
    \A t \in Threads :
        pc[t] = "write_ret" =>
            IF result[t].tag = "Err" THEN View = wview
            ELSE View = [wview EXCEPT ![cur[t].key] = Binding(cur[t])]

\* The record an index entry designates is in its segment file.
Valid(k) ==
    /\ FileExists(index[k].gen)
    /\ index[k].pos + index[k].len <= FileSize(index[k].gen)
    /\ ReadAt(index[k]).op.type = "Set"
    /\ ReadAt(index[k]).op.key = k

\* C11: in every reachable state, the intermediate states of set, remove and
\* compaction included, every index entry points to a segment that exists, to
\* bytes that have reached the file, and to a Set record of its key.
C11_IndexValid == \A k \in DOMAIN index : Valid(k)

\* C12: current_gen exceeds every other generation on disk and its own segment
\* exists; a step leaves it alone, or is the start of a compaction and raises it
\* by exactly 2, or is an open and sets it to the highest generation found plus 1.
C12_GenInv ==
    /\ current_gen \in ExistingGens
    /\ \A g \in ExistingGens \ {current_gen} : g < current_gen

C12_GenStep ==
    IF reopensLeft' < reopensLeft
    THEN current_gen' = Max(ExistingGens) + 1
    ELSE IF \E t \in Threads : pc[t] = "compact_create" /\ pc'[t] # pc[t]
    THEN current_gen' = current_gen + 2
    ELSE current_gen' = current_gen

C12_CurrentGen == [](C12_GenInv) /\ [][C12_GenStep]_vars

\* The directory was reopened after a compaction: generations 2, 3 and 4.
C12_Witness == reopensLeft < MaxReopens /\ current_gen = 4 /\ ExistingGens = {2, 3, 4}

\* C13: the safe point never decreases, never exceeds current_gen, and no index
\* entry refers to a generation below it.
C13_SafeInv ==
    /\ safe_point <= current_gen
    /\ \A k \in DOMAIN index : safe_point <= index[k].gen

C13_SafePoint == [](C13_SafeInv) /\ [][safe_point' >= safe_point]_vars

\* A compaction has published its generation and a later set is indexed.
C13_Witness ==
    /\ safe_point = 2
    /\ \E k \in DOMAIN index : index[k].gen = 3
    /\ \E k \in DOMAIN index : index[k].gen = 2

\* Total bytes of the segments on disk, and of the records the index points to.
RECURSIVE SumOver(_, _)
SumOver(S, f) ==
    IF S = {} THEN 0
    ELSE LET x == CHOOSE y \in S : TRUE IN f[x] + SumOver(S \ {x}, f)

DiskBytes ==
    SumOver(ExistingGens,
            [g \in ExistingGens |-> Offset(files[g].recs, Len(files[g].recs) + 1)])
LiveBytes == SumOver(DOMAIN index, [k \in DOMAIN index |-> index[k].len])

Started == Cardinality({w \in PoolThreads : worker[w] # "none"})
FreeThread == Min({w \in PoolThreads : worker[w] = "none"})
FreeJob == Min({j \in JobIds : job[j].state = "none"})

\* new(threads) with threads <= 0 (shared_queue.rs:48-50).
NewReject ==
    /\ new_pc = "check"
    /\ threads <= 0
    /\ new_pc' = "err"
    /\ UNCHANGED <<threads, task_sender, receivers, queue, worker, task, job, spawnFaults>>
    /\ UNCHANGED <<store, server, launcher>>

\* let (s, r) = unbounded() (shared_queue.rs:52).
NewChannel ==
    /\ new_pc = "check"
    /\ threads > 0
    /\ task_sender' = "alive"
    /\ receivers' = 1
    /\ new_pc' = "spawn"
    /\ UNCHANGED <<threads, queue, worker, task, job, spawnFaults>>
    /\ UNCHANGED <<store, server, launcher>>

\* One iteration of the loop of new: r.clone() and a thread that runs run_tasks
\* (shared_queue.rs:54-57).
NewSpawn ==
    /\ new_pc = "spawn"
    /\ Started < threads
    /\ worker' = [worker EXCEPT ![FreeThread] = "recv"]
    /\ receivers' = receivers + 1
    /\ UNCHANGED <<threads, new_pc, task_sender, queue, task, job, spawnFaults>>
    /\ UNCHANGED <<store, server, launcher>>

\* A failed start that leaves the Sender alive.
NewSpawnFailLeak ==
    /\ new_pc = "spawn"
    /\ Started < threads
    /\ spawnFaults > 0
    /\ spawnFaults' = spawnFaults - 1
    /\ new_pc' = "err"
    /\ receivers' = receivers - 1
    /\ UNCHANGED <<threads, task_sender, queue, worker, task, job>>
    /\ UNCHANGED <<store, server, launcher>>

\* thread::Builder::spawn fails in new (shared_queue.rs:56): the closure and its
\* receiver clone are dropped, `?` returns the error, s and r are dropped.
NewSpawnFail ==
    /\ new_pc = "spawn"
    /\ Started < threads
    /\ spawnFaults > 0
    /\ spawnFaults' = spawnFaults - 1
    /\ new_pc' = "err"
    /\ task_sender' = "dropped"
    /\ receivers' = receivers - 1
    /\ UNCHANGED <<threads, queue, worker, task, job>>
    /\ UNCHANGED <<store, server, launcher>>

\* Ok(Self { task_sender: s }) (shared_queue.rs:59): r is dropped.
NewReturn ==
    /\ new_pc = "spawn"
    /\ Started = threads
    /\ new_pc' = "ok"
    /\ receivers' = receivers - 1
    /\ UNCHANGED <<threads, task_sender, queue, worker, task, job, spawnFaults>>
    /\ UNCHANGED <<store, server, launcher>>

\* SharedQueueThreadPool::spawn (shared_queue.rs:62-66): send on the unbounded
\* channel fails only when no Receiver exists, and then expect panics.
PoolSpawn(kind) ==
    /\ new_pc = "ok"
    /\ task_sender = "alive"
    /\ \E j \in JobIds : job[j].state = "none"
    /\ IF receivers > 0
       THEN /\ queue' = Append(queue, FreeJob)
            /\ job' = [job EXCEPT ![FreeJob] = [kind |-> kind, state |-> "queued"]]
       ELSE /\ queue' = queue
            /\ job' = [job EXCEPT ![FreeJob] = [kind |-> kind, state |-> "rejected"]]
    /\ UNCHANGED <<threads, new_pc, task_sender, receivers, worker, task, spawnFaults>>
    /\ UNCHANGED <<store, server, launcher>>

\* The pool handle is dropped, and with it the only Sender
\* (shared_queue.rs:42-44).
PoolDrop ==
    /\ new_pc = "ok"
    /\ task_sender = "alive"
    /\ task_sender' = "dropped"
    /\ UNCHANGED <<threads, new_pc, receivers, queue, worker, task, job, spawnFaults>>
    /\ UNCHANGED <<store, server, launcher>>

\* A recv that reports the disconnection before it hands out what is queued.
RecvDisconnectFirst(q, sender) ==
    IF sender = "dropped" THEN "err" ELSE IF q # <<>> THEN "msg" ELSE "block"

\* Receiver::recv (shared_queue.rs:30): a message while the channel holds one,
\* an error once it is empty and every Sender is gone, else the thread waits.
Recv(q, sender) ==
    IF q # <<>> THEN "msg" ELSE IF sender = "dropped" THEN "err" ELSE "block"

\* A thread that takes the job submitted last.
TakeLast(w) ==
    /\ worker[w] = "recv"
    /\ Recv(queue, task_sender) = "msg"
    /\ task' = [task EXCEPT ![w] = queue[Len(queue)]]
    /\ queue' = SubSeq(queue, 1, Len(queue) - 1)
    /\ job' = [job EXCEPT ![queue[Len(queue)]].state = "running"]
    /\ worker' = [worker EXCEPT ![w] = "run"]
    /\ UNCHANGED <<threads, new_pc, task_sender, receivers, spawnFaults>>
    /\ UNCHANGED <<store, server, launcher>>

\* run_tasks takes a job (shared_queue.rs:30-32).
Take(w) ==
    /\ worker[w] = "recv"
    /\ Recv(queue, task_sender) = "msg"
    /\ task' = [task EXCEPT ![w] = Head(queue)]
    /\ queue' = Tail(queue)
    /\ job' = [job EXCEPT ![Head(queue)].state = "running"]
    /\ worker' = [worker EXCEPT ![w] = "run"]
    /\ UNCHANGED <<threads, new_pc, task_sender, receivers, spawnFaults>>
    /\ UNCHANGED <<store, server, launcher>>

\* run_tasks leaves its loop (shared_queue.rs:34).
Disconnected(w) ==
    /\ worker[w] = "recv"
    /\ Recv(queue, task_sender) = "err"
    /\ worker' = [worker EXCEPT ![w] = "leave"]
    /\ UNCHANGED <<threads, new_pc, task_sender, receivers, queue, task, job, spawnFaults>>
    /\ UNCHANGED <<store, server, launcher>>

\* task() returns (shared_queue.rs:32).
JobDone(w) ==
    /\ worker[w] = "run"
    /\ job[task[w]].kind = "ok"
    /\ job' = [job EXCEPT ![task[w]].state = "done"]
    /\ task' = [task EXCEPT ![w] = NoJob]
    /\ worker' = [worker EXCEPT ![w] = "recv"]
    /\ UNCHANGED <<threads, new_pc, task_sender, receivers, queue, spawnFaults>>
    /\ UNCHANGED <<store, server, launcher>>

\* task() panics (shared_queue.rs:32): the thread unwinds out of run_tasks.
JobPanic(w) ==
    /\ worker[w] = "run"
    /\ job[task[w]].kind = "panic"
    /\ job' = [job EXCEPT ![task[w]].state = "panicked"]
    /\ task' = [task EXCEPT ![w] = NoJob]
    /\ worker' = [worker EXCEPT ![w] = "unwind"]
    /\ UNCHANGED <<threads, new_pc, task_sender, receivers, queue, spawnFaults>>
    /\ UNCHANGED <<store, server, launcher>>

\* A drop that always finds the thread panicking.
PanickingAlways(w) == TRUE

\* A drop that never finds the thread panicking.
PanickingNever(w) == FALSE

\* thread::panicking() in Drop for TaskReceiver (shared_queue.rs:19).
Panicking(w) == worker[w] = "unwind"

\* Drop for TaskReceiver (shared_queue.rs:17-26) on the thread's rx: while
\* panicking, a clone is handed to a new thread that runs run_tasks; otherwise
\* nothing is done, the Receiver inside is dropped and the thread ends.
ReceiverDrop(w) ==
    /\ worker[w] \in {"leave", "unwind"}
    /\ IF Panicking(w)
       THEN /\ receivers' = receivers + 1
            /\ worker' = [worker EXCEPT ![w] = "gone", ![FreeThread] = "recv"]
       ELSE /\ receivers' = receivers - 1
            /\ worker' = [worker EXCEPT ![w] = "exited"]
    /\ UNCHANGED <<threads, new_pc, task_sender, queue, task, job, spawnFaults>>
    /\ UNCHANGED <<store, server, launcher>>

\* thread::Builder::spawn fails in the drop (shared_queue.rs:21): the closure is
\* dropped on the panicking thread, so the drop of the clone it owns runs the
\* same code again.
RespawnFail(w) ==
    /\ worker[w] = "unwind"
    /\ Panicking(w)
    /\ spawnFaults > 0
    /\ spawnFaults' = spawnFaults - 1
    /\ UNCHANGED <<threads, new_pc, task_sender, receivers, queue, worker, task, job>>
    /\ UNCHANGED <<store, server, launcher>>

\* After the replacement was started, the Receiver inside the panicking
\* thread's TaskReceiver is dropped and the thread ends.
ReceiverGone(w) ==
    /\ worker[w] = "gone"
    /\ receivers' = receivers - 1
    /\ worker' = [worker EXCEPT ![w] = "exited"]
    /\ UNCHANGED <<threads, new_pc, task_sender, queue, task, job, spawnFaults>>
    /\ UNCHANGED <<store, server, launcher>>

\* The steps of new, and of one thread of the pool.
NewStep == NewReject \/ NewChannel \/ NewSpawn \/ NewReturn
WorkerStep(w) ==
    Take(w) \/ Disconnected(w) \/ JobDone(w) \/ JobPanic(w) \/ ReceiverDrop(w)
        \/ ReceiverGone(w)

\* SharedQueueThreadPool::new(threads) has been called.
InitPool ==
    /\ InitEngine /\ reopensLeft = 0 /\ faultsLeft = 0 /\ NoServer /\ NoLauncher
    /\ threads \in 0..MaxThreads
    /\ new_pc = "check"
    /\ task_sender = "none"
    /\ receivers = 0
    /\ queue = <<>>
    /\ worker = [w \in PoolThreads |-> "none"]
    /\ task = [w \in PoolThreads |-> NoJob]
    /\ job = [j \in JobIds |-> [kind |-> "none", state |-> "none"]]
    /\ spawnFaults = MaxSpawnFaults

NextPool ==
    \/ NewReject
    \/ NewChannel
    \/ NewSpawn
    \/ NewSpawnFail
    \/ NewReturn
    \/ \E kind \in {"ok", "panic"} : PoolSpawn(kind)
    \/ PoolDrop
    \/ \E w \in PoolThreads : Take(w)
    \/ \E w \in PoolThreads : Disconnected(w)
    \/ \E w \in PoolThreads : JobDone(w)
    \/ \E w \in PoolThreads : JobPanic(w)
    \/ \E w \in PoolThreads : ReceiverDrop(w)
    \/ \E w \in PoolThreads : RespawnFail(w)
    \/ \E w \in PoolThreads : ReceiverGone(w)

\* A pool whose threads are scheduled and whose jobs end: the pool does not
\* stand still while new or one of its threads can take a step (every run has
\* finitely many steps, so no thread is passed over for ever); the callers of
\* spawn and of drop are free.
SpecPool ==
    /\ InitPool
    /\ [][NextPool]_vars
    /\ WF_vars(NewStep \/ \E w \in PoolThreads : WorkerStep(w))

\* C15: every non-panicking job that was submitted eventually runs to
\* completion, however many panicking jobs were submitted before it (as many as
\* the pool has workers, or more): from some point on no submitted job of that
\* kind is left queued or running.
C15_PanicResilience ==
    <>[](\A j \in JobIds : job[j].kind = "ok" => job[j].state = "done")

\* A job has completed after at least as many jobs as the pool has workers
\* panicked, all of them submitted before it.
C15_Witness ==
    \E j \in JobIds :
        /\ job[j].state = "done"
        /\ j - 1 >= threads
        /\ \A i \in 1..(j - 1) : job[i].state = "panicked"

\* Every submitted job has been executed and every thread of the pool has ended.
Drained ==
    /\ queue = <<>>
    /\ \A j \in JobIds : job[j].state \in {"none", "done", "panicked"}
    /\ \A w \in PoolThreads : worker[w] \in {"none", "exited"}

Dropped == new_pc = "ok" /\ task_sender = "dropped"

\* C16: once the pool handle is dropped, every job submitted before is executed
\* and then every worker, replacements included, terminates; a worker leaves
\* its loop only when the queue is empty.  A dropped handle stays dropped and
\* a drained pool stays drained, so "from some point on, dropped implies
\* drained" is the same as "dropped leads to drained".
C16_Shutdown ==
    /\ <>[](Dropped => Drained)
    /\ [][Dropped => Dropped']_vars
    /\ [][(Dropped /\ Drained) => Drained']_vars
    /\ [][\A w \in PoolThreads :
              (worker[w] = "recv" /\ worker'[w] = "leave") => queue = <<>>]_vars

\* The handle is dropped, a job has panicked, a job has completed, and the
\* workers and the replacement have all exited.
C16_Witness ==
    /\ new_pc = "ok" /\ task_sender = "dropped"
    /\ Drained
    /\ \E j \in JobIds : job[j].state = "panicked"
    /\ \E j \in JobIds : job[j].state = "done"
    /\ Cardinality({w \in PoolThreads : worker[w] = "exited"}) > threads

\* C17: while the pool handle is alive a Receiver exists, so spawn can be called,
\* enqueues the job and never meets a disconnected channel.
C17_SpawnNeverFails ==
    /\ \A j \in JobIds : job[j].state # "rejected"
    /\ \A j \in JobIds : job[j].state = "queued" => \E i \in 1..Len(queue) : queue[i] = j
    /\ (new_pc = "ok" /\ task_sender = "alive") =>
           /\ receivers >= 1
           /\ (\E j \in JobIds : job[j].state = "none") => ENABLED PoolSpawn("ok")

\* A job is queued after every worker new started has panicked, one of them
\* still busy dropping its receiver.
C17_Witness ==
    /\ task_sender = "alive"
    /\ Cardinality({j \in JobIds : job[j].state = "panicked"}) >= threads
    /\ \E w \in PoolThreads : worker[w] = "gone"
    /\ \E j \in JobIds : job[j].state = "queued"

\* C18: when starting a worker fails, new returns an error and every worker
\* started before eventually exits.
C18_NewFailureTearsDown ==
    (new_pc = "err") ~> (\A w \in PoolThreads : worker[w] \in {"none", "exited"})

\* new has failed at its second worker and the first one has exited.
C18_Witness ==
    /\ new_pc = "err"
    /\ spawnFaults < MaxSpawnFaults
    /\ \E w \in PoolThreads : worker[w] = "exited"

\* ---------------------------------------------------------------- server
\* KvsServer (server.rs) and the clients that connect to it. A connection holds
\* the request frames the client has written and the server has not read
\* (inbox), the response frames the server has written (outbox), every frame
\* the client wrote (sent), and whether the client has closed it (eof).
Frames ==
    {[type |-> "Get", key |-> k, value |-> NoValue] : k \in Keys}
        \cup {[type |-> "Set", key |-> k, value |-> v] : k \in Keys, v \in Values}
        \cup {[type |-> "Rm", key |-> k, value |-> NoValue] : k \in Keys}
        \cup {[type |-> "Bad", key |-> "", value |-> NoValue]}

RECURSIVE TotalSent(_)
TotalSent(C) ==
    IF C = {} THEN 0
    ELSE LET c == CHOOSE x \in C : TRUE IN Len(conns[c].sent) + TotalSent(C \ {c})

Listening == spc \notin {"none", "returned"}

\* KvsClient::connect (client.rs:18-26): the connection waits in the backlog of
\* the listener until the server accepts it.
Connect(c) ==
    /\ Listening
    /\ conns[c].state = "none"
    /\ \A d \in Conns : d < c => conns[d].state # "none"
    /\ conns' = [conns EXCEPT ![c].state = "backlog"]
    /\ listener' = Append(listener, c)
    /\ UNCHANGED <<spc, stream, run_result, netFaults>>
    /\ UNCHANGED <<store, pool, launcher>>

\* A client writes a frame and flushes (client.rs:30-31); the bytes wait in the
\* socket whether or not the server has accepted the connection.
Send(c, f) ==
    /\ conns[c].state \in {"backlog", "open"}
    /\ ~conns[c].eof
    /\ TotalSent(Conns) < MaxFrames
    /\ TotalSent(Conns) < MaxOps
    /\ conns' = [conns EXCEPT ![c].inbox = Append(@, f), ![c].sent = Append(@, f)]
    /\ UNCHANGED <<spc, stream, listener, run_result, netFaults>>
    /\ UNCHANGED <<store, pool, launcher>>

\* The client drops its KvsClient (client.rs:10-13): the server reads end of
\* file after the frames already sent.
ClientClose(c) ==
    /\ conns[c].state \in {"backlog", "open"}
    /\ ~conns[c].eof
    /\ conns' = [conns EXCEPT ![c].eof = TRUE]
    /\ UNCHANGED <<spc, stream, listener, run_result, netFaults>>
    /\ UNCHANGED <<store, pool, launcher>>

\* A socket call of the server fails.
NetFault == netFaults > 0 /\ netFaults' = netFaults - 1

\* The connection KvsServer::run holds is dropped and the loop goes on to the
\* next item of listener.incoming() (server.rs:25).
Hangup ==
    /\ conns' = [conns EXCEPT ![stream].state = "closed"]
    /\ stream' = NoConn
    /\ spc' = "accept"

\* listener.incoming() yields a connection and peer_addr succeeds
\* (server.rs:25-30).
Accept ==
    /\ spc = "accept"
    /\ listener # <<>>
    /\ stream' = Head(listener)
    /\ listener' = Tail(listener)
    /\ conns' = [conns EXCEPT ![Head(listener)].state = "open"]
    /\ spc' = "serve"
    /\ UNCHANGED <<run_result, netFaults>>
    /\ UNCHANGED <<store, pool, launcher>>

\* listener.incoming() yields an error, which is logged (server.rs:35).
AcceptFail ==
    /\ spc = "accept"
    /\ listener # <<>>
    /\ NetFault
    /\ listener' = Tail(listener)
    /\ conns' = [conns EXCEPT ![Head(listener)].state = "closed"]
    /\ UNCHANGED <<spc, stream, run_result>>
    /\ UNCHANGED <<store, pool, launcher>>

\* stream.peer_addr()? fails in run (server.rs:28): run returns the error and
\* the listener is dropped.
PeerAddrFail ==
    /\ spc = "accept"
    /\ listener # <<>>
    /\ NetFault
    /\ listener' = Tail(listener)
    /\ conns' = [conns EXCEPT ![Head(listener)].state = "closed"]
    /\ spc' = "returned"
    /\ run_result' = Err("Io")
    /\ UNCHANGED stream
    /\ UNCHANGED <<store, pool, launcher>>

\* KvsServer::serve up to its loop (server.rs:43-46).
ServeSetup ==
    /\ spc = "serve"
    /\ spc' = "serve_read"
    /\ UNCHANGED <<stream, conns, listener, run_result, netFaults>>
    /\ UNCHANGED <<store, pool, launcher>>

\* peer_addr, try_clone, or reading the next frame fails (server.rs:43-44, 49):
\* serve returns the error, run logs it (server.rs:31-33).
ServeFail ==
    /\ spc \in {"serve", "serve_read"}
    /\ NetFault
    /\ Hangup
    /\ UNCHANGED <<listener, run_result>>
    /\ UNCHANGED <<store, pool, launcher>>

\* The request iterator ends (server.rs:48): the client has closed the
\* connection and every frame was read; serve returns Ok(()) (server.rs:79).
ServeEof ==
    /\ spc = "serve_read"
    /\ conns[stream].inbox = <<>>
    /\ conns[stream].eof
    /\ Hangup
    /\ UNCHANGED <<listener, run_result, netFaults>>
    /\ UNCHANGED <<store, pool, launcher>>

\* The next frame is no Request: req? returns the error (server.rs:49).
ServeBadFrame ==
    /\ spc = "serve_read"
    /\ conns[stream].inbox # <<>>
    /\ Head(conns[stream].inbox).type = "Bad"
    /\ Hangup
    /\ UNCHANGED <<listener, run_result, netFaults>>
    /\ UNCHANGED <<store, pool, launcher>>

\* A server that takes the newest frame of the socket first.
ServeRequestLast ==
    /\ spc = "serve_read"
    /\ conns[stream].inbox # <<>>
    /\ LET n == Len(conns[stream].inbox)
           f == conns[stream].inbox[n]
       IN  /\ f.type # "Bad"
           /\ IF f.type = "Get" THEN GetLookup(Opener, f.key)
              ELSE IF f.type = "Set" THEN SetLock(Opener, f.key, f.value)
              ELSE RemoveLock(Opener, f.key)
           /\ conns' = [conns EXCEPT ![stream].inbox = SubSeq(@, 1, n - 1)]
    /\ spc' = "serve_call"
    /\ UNCHANGED <<stream, listener, run_result, netFaults>>
    /\ UNCHANGED <<pool, launcher>>

\* The next frame is a Request: the engine is called on the server's own
\* thread (server.rs:63-75).
ServeRequest ==
    /\ spc = "serve_read"
    /\ conns[stream].inbox # <<>>
    /\ LET f == Head(conns[stream].inbox)
       IN  /\ f.type # "Bad"
           /\ IF f.type = "Get" THEN GetLookup(Opener, f.key)
              ELSE IF f.type = "Set" THEN SetLock(Opener, f.key, f.value)
              ELSE RemoveLock(Opener, f.key)
    /\ conns' = [conns EXCEPT ![stream].inbox = Tail(@)]
    /\ spc' = "serve_call"
    /\ UNCHANGED <<stream, listener, run_result, netFaults>>
    /\ UNCHANGED <<pool, launcher>>

\* format!("{:?}", e): the name of the variant instead of its display text.
ErrTextDebug(e) == e

\* format!("{}", e) for a KvsError (error.rs:6-29); the text of an I/O or serde
\* error is that of the underlying error.
ErrText(e) ==
    IF e = "KeyNotFound" THEN "Key not found"
    ELSE IF e = "UnexpectedCommandType" THEN "Unexpected command type"
    ELSE e

\* A server that answers every request with an RmResponse.
ResponseRm(call, r) ==
    [kind |-> "RmResponse",
     ok |-> r.tag # "Err",
     value |-> <<>>,
     msg |-> IF r.tag = "Err" THEN ErrText(r.err) ELSE ""]

\* The response frame for the call and its result (server.rs:64-75).
Response(call, r) ==
    [kind |-> IF call.op = "get" THEN "GetResponse"
              ELSE IF call.op = "set" THEN "SetResponse" ELSE "RmResponse",
     ok |-> r.tag # "Err",
     value |-> IF r.tag = "OkSome" THEN <<r.val>> ELSE <<>>,
     msg |-> IF r.tag = "Err" THEN ErrText(r.err) ELSE ""]

\* send_resp! (server.rs:52-61) once the engine call has returned.
ServeRespond ==
    /\ spc = "serve_call"
    /\ pc[Opener] \in {"get_ret", "write_ret"}
    /\ conns' = [conns EXCEPT
                   ![stream].outbox = Append(@, Response(cur[Opener], result[Opener]))]
    /\ IF pc[Opener] = "get_ret" THEN GetReturn(Opener) ELSE WriteReturn(Opener)
    /\ spc' = "serve_read"
    /\ UNCHANGED <<stream, listener, run_result, netFaults>>
    /\ UNCHANGED <<pool, launcher>>

\* to_writer or flush fails in send_resp! (server.rs:56-57): serve returns the
\* error after the engine call has returned.
ServeRespondFail ==
    /\ spc = "serve_call"
    /\ pc[Opener] \in {"get_ret", "write_ret"}
    /\ NetFault
    /\ IF pc[Opener] = "get_ret" THEN GetReturn(Opener) ELSE WriteReturn(Opener)
    /\ Hangup
    /\ UNCHANGED <<listener, run_result>>
    /\ UNCHANGED <<pool, launcher>>

\* The engine call KvsServer::serve is waiting for.
ServeCall ==
    \/ GetEvict(Opener) /\ UNCHANGED outside
    \/ GetRead(Opener) /\ UNCHANGED outside
    \/ SetAppend(Opener) /\ UNCHANGED outside
    \/ SetIndex(Opener) /\ UNCHANGED outside
    \/ RmAppend(Opener) /\ UNCHANGED outside
    \/ RmIndex(Opener) /\ UNCHANGED outside
    \/ CompactCreate(Opener) /\ UNCHANGED outside
    \/ CompactCopy(Opener) /\ UNCHANGED outside
    \/ CompactFlush(Opener) /\ UNCHANGED outside
    \/ CompactPublish(Opener) /\ UNCHANGED outside
    \/ CompactDelete(Opener) /\ UNCHANGED outside
    \/ CompactFinish(Opener) /\ UNCHANGED outside

\* The wire form of a response (serde_json, externally tagged enum): the
\* variant name and its content; the unit of SetResponse::Ok and RmResponse::Ok
\* and the None of GetResponse::Ok are all null (an empty body here), a string
\* is a body of one element. The name of the response type is not sent.
Encode(resp) ==
    [tag |-> IF resp.ok THEN "Ok" ELSE "Err",
     body |-> IF resp.ok THEN resp.value ELSE <<resp.msg>>]

\* KvsError::StringError(msg) as the result of a client call.
StringError(msg) == Err(msg)
\* KvsError::Serde from the client's deserializer: the frame is not of the
\* expected type, or the stream has ended.
DecodeError == Err("client: serde_json::Error")

\* XxxResponse::deserialize of a wire frame followed by the match of the
\* client (client.rs:32-37, 44-49, 56-61).
Decode(type, w) ==
    IF w.tag = "Err" THEN StringError(w.body[1])
    ELSE IF type = "GetResponse"
         THEN IF w.body = <<>> THEN OkNone ELSE OkSome(w.body[1])
         ELSE IF w.body = <<>> THEN Ok ELSE DecodeError

\* The response type a KvsClient method deserializes (client.rs:32, 44, 56):
\* set reads an RmResponse.
DecodeType(type) ==
    IF type = "Get" THEN "GetResponse" ELSE "RmResponse"

Requests == {f \in Frames : f.type # "Bad"}

\* KvsClient::get, set or remove up to the flush (client.rs:30-31, 42-43,
\* 54-55): one request frame goes to the socket. The write succeeds on a
\* connection the server has closed as well; the frame is never read then.
ClientCall(c, f) ==
    /\ conns[c].state \in {"backlog", "open", "closed"}
    /\ ~conns[c].eof
    /\ conns[c].call = NoRequest
    /\ TotalSent(Conns) < MaxFrames
    /\ TotalSent(Conns) < MaxOps
    /\ conns' = [conns EXCEPT ![c].inbox = Append(@, f),
                              ![c].sent = Append(@, f),
                              ![c].call = f,
                              ![c].decode = DecodeType(f.type)]
    /\ UNCHANGED <<spc, stream, listener, run_result, netFaults>>
    /\ UNCHANGED <<store, pool, launcher>>

\* The rest of the method (client.rs:32-37, 44-49, 56-61): the next response
\* frame of the stream is read and decoded.
ClientReturn(c) ==
    /\ conns[c].call # NoRequest
    /\ conns[c].got < Len(conns[c].outbox)
    /\ conns' = [conns EXCEPT
                   ![c].got = @ + 1,
                   ![c].replies =
                       Append(@, Decode(conns[c].decode,
                                        Encode(conns[c].outbox[conns[c].got + 1]))),
                   ![c].call = NoRequest,
                   ![c].decode = ""]
    /\ UNCHANGED <<spc, stream, listener, run_result, netFaults>>
    /\ UNCHANGED <<store, pool, launcher>>

\* The server has closed the connection and no response is left to read:
\* deserialize fails with an end-of-file error.
ClientReturnEof(c) ==
    /\ conns[c].call # NoRequest
    /\ conns[c].state = "closed"
    /\ conns[c].got = Len(conns[c].outbox)
    /\ conns' = [conns EXCEPT ![c].replies = Append(@, DecodeError),
                              ![c].call = NoRequest,
                              ![c].decode = ""]
    /\ UNCHANGED <<spc, stream, listener, run_result, netFaults>>
    /\ UNCHANGED <<store, pool, launcher>>

\* The KvsClient is dropped between two calls.
ClientDrop(c) == conns[c].call = NoRequest /\ ClientClose(c)

\* The steps the thread in KvsServer::run takes when no socket call fails.
ServerStep ==
    \/ Accept
    \/ ServeSetup
    \/ ServeEof
    \/ ServeBadFrame
    \/ ServeRequest
    \/ ServeCall
    \/ ServeRespond

\* KvsServer::run has bound its listener (server.rs:23) on a new store.
InitServer ==
    /\ InitEngine /\ reopensLeft = 0 /\ faultsLeft = 0 /\ NoPool /\ NoLauncher
    /\ spc = "accept"
    /\ stream = NoConn
    /\ conns = [c \in Conns |-> NoConnection]
    /\ listener = <<>>
    /\ run_result = NoResult
    /\ netFaults = MaxNetFaults

NextServer ==
    \/ \E c \in Conns : Connect(c)
    \/ \E c \in Conns, f \in Frames : Send(c, f)
    \/ \E c \in Conns : ClientClose(c)
    \/ ServerStep
    \/ AcceptFail
    \/ PeerAddrFail
    \/ ServeFail
    \/ ServeRespondFail

\* One server thread and clients that connect, send frames and close.
SpecServer == InitServer /\ [][NextServer]_vars

NextPipeline ==
    \/ \E c \in Clients : Connect(c)
    \/ \E c \in Clients, f \in Frames : Send(c, f)
    \/ \E c \in Clients : ClientClose(c)
    \/ ServerStep
    \/ AcceptFail
    \/ PeerAddrFail
    \/ ServeFail
    \/ ServeRespondFail

\* One server thread and a peer that may write several frames before it reads
\* a response.
SpecPipeline == InitServer /\ [][NextPipeline]_vars

NextClient ==
    \/ \E c \in Clients : Connect(c)
    \/ \E c \in Clients, f \in Requests : ClientCall(c, f)
    \/ \E c \in Clients : ClientReturn(c)
    \/ \E c \in Clients : ClientReturnEof(c)
    \/ \E c \in Clients : ClientDrop(c)
    \/ Accept
    \/ ServeSetup
    \/ ServeEof
    \/ ServeRequest
    \/ ServeCall
    \/ ServeRespond
    \/ AcceptFail
    \/ PeerAddrFail
    \/ ServeFail
    \/ ServeRespondFail

\* One server thread and a KvsClient that connects, calls get, set and remove
\* one call at a time, and is dropped.
SpecClient == InitServer /\ [][NextClient]_vars

\* C19: while a connection is open and its client has not closed it, a request
\* that waits on a further connection does not have to wait for that client:
\* the server thread can take a step (accept, read, call the engine, respond).
C19_AcceptNeverBlocks ==
    \A c, d \in Conns :
        (/\ conns[c].state = "open" /\ ~conns[c].eof
         /\ conns[d].state = "backlog" /\ conns[d].inbox # <<>>)
        => ENABLED ServerStep

\* C20: no error on a connection makes KvsServer::run return: the server keeps
\* its listener and goes on accepting.
C20_ServerSurvives == spc # "returned" /\ run_result = NoResult

\* ----------------------------------------------- claims on compaction
C25_AfterWrite ==
    \A t \in Threads :
        (pc[t] = "write_ret" /\ result[t] = Ok) => uncompacted <= COMPACTION_THRESHOLD

C25_Step ==
    \A t \in Threads :
        /\ (pc[t] \in {"set_index", "rm_index"} /\ pc'[t] # pc[t]) =>
               /\ pc'[t] \in {"compact_create", "write_ret"}
               /\ pc'[t] = "compact_create" <=> uncompacted' > 1048576
        /\ (pc'[t] = "compact_create" /\ pc[t] # "compact_create") =>
               pc[t] \in {"set_index", "rm_index"}

\* C25: set and remove go on to compact() exactly when the dead-byte counter,
\* after their own accounting, is above 1 MiB; a set or remove that returns Ok
\* leaves the counter at or below the threshold.
C25_CompactionTrigger == [](C25_AfterWrite) /\ [][C25_Step]_vars

\* A write has returned Ok without compacting although dead bytes are counted,
\* after an earlier write has compacted.
C25_Witness ==
    \E t \in Threads :
        /\ pc[t] = "write_ret" /\ result[t] = Ok
        /\ uncompacted > 0
        /\ current_gen > 1

\* A set or remove on thread t has run compact() and compact() has returned Ok.
CompactedOk(t) == pc[t] = "write_ret" /\ result[t] = Ok /\ comp # NoComp

\* The index entries lie in segment g at disjoint ranges that cover it.
Tiles(g) ==
    /\ \A k \in DOMAIN index :
           index[k].gen = g /\ index[k].len > 0
    /\ \A k1, k2 \in DOMAIN index :
           k1 # k2 => \/ index[k1].pos + index[k1].len <= index[k2].pos
                      \/ index[k2].pos + index[k2].len <= index[k1].pos
    /\ LiveBytes = FileSize(g)
    /\ FileSize(g) = Offset(files[g].recs, Len(files[g].recs) + 1)

Deleted == {g \in ExistingGens : ~(g \in DOMAIN files' /\ files'[g].exists)}

C27_Step ==
    \A g \in Deleted :
        /\ \A k \in DOMAIN index : index[k].gen # g
        /\ comp # NoComp
        /\ FileExists(comp.gen)
        /\ files[comp.gen].synced = Len(files[comp.gen].recs)
        /\ \A k \in DOMAIN index : index[k].gen = comp.gen
        /\ safe_point > g
        /\ safe_point = comp.gen

\* C27: a segment is deleted only when no index entry points into it any more,
\* the output segment of the compaction is flushed and the safe point has been
\* published above the segment's generation; a segment at or above the safe
\* point is never deleted.
C27_DeletionOrdering == [][C27_Step]_vars

\* A compaction has deleted a segment while a live record sits in its output.
C27_Witness ==
    /\ lock # NoThread /\ pc[lock] = "compact_delete"
    /\ \E g \in DOMAIN files : ~files[g].exists /\ g < safe_point
    /\ index # EmptyIndex

\* Generations below the safe point that handle t holds a descriptor of.
Stale(t) == {g \in readers[t] : g < safe_point}

C28_Sweep ==
    \A t \in Threads :
        (pc[t] = "get_evict" /\ pc'[t] = "get_read") =>
            \A g \in readers'[t] : safe_point <= g

\* C28: a descriptor of a generation below the published safe point is
\* eventually released by the handle that caches it, and right after a sweep a
\* handle caches no descriptor below the safe point the sweep saw.
C28_StaleRelease ==
    /\ [][C28_Sweep]_vars
    /\ \A t \in Threads : (Stale(t) # {}) ~> (Stale(t) = {})

\* Thread t takes a step of a get.
GetStep(t) == pc'[t] # pc[t] /\ (pc[t] \in GetPcs \/ pc'[t] \in GetPcs)

C29_Frame ==
    \A t \in Threads :
        GetStep(t) =>
            /\ UNCHANGED <<files, index, current_gen, uncompacted, safe_point>>
            /\ UNCHANGED <<wgen, wpos, wreaders, lock, kvmap>>
            /\ \A u \in Threads \ {t} : readers'[u] = readers[u]

\* C29: a get, whatever it returns, leaves the index, the segment files,
\* current_gen, the dead-byte counter, the safe point and the descriptor caches
\* of the other handles and of the writer as they are.
C29_GetNoEffect == [][C29_Frame]_vars

\* A get has failed during a compaction after it opened a descriptor.
C29_Witness ==
    \E t \in Threads :
        /\ pc[t] = "get_ret"
        /\ result[t].tag = "Err"
        /\ readers[t] # {}
        /\ safe_point > 0

\* ------------------------------------------------- claims on the protocol
\* The response type KvsServer::serve answers a request frame with.
ResponseKind(type) ==
    IF type = "Get" THEN "GetResponse"
    ELSE IF type = "Set" THEN "SetResponse" ELSE "RmResponse"

\* Request frames of connection c the server has taken from the socket.
FramesRead(c) == Len(conns[c].sent) - Len(conns[c].inbox)

\* The connection whose request the engine is working on.
InCall(c) == stream = c /\ spc = "serve_call"

C21_OneEach ==
    \A c \in Conns :
        /\ Len(conns[c].outbox) <= FramesRead(c)
        /\ Len(conns[c].outbox) >= FramesRead(c) - 1
        /\ (conns[c].state = "open" /\ ~InCall(c)) =>
               Len(conns[c].outbox) = FramesRead(c)
        /\ \A i \in 1..Len(conns[c].outbox) :
               conns[c].outbox[i].kind = ResponseKind(conns[c].sent[i].type)

C21_Respond ==
    \A c \in Conns :
        conns'[c].outbox # conns[c].outbox =>
            /\ InCall(c)
            /\ pc[Opener] \in {"get_ret", "write_ret"}
            /\ \E r \in [kind : {"GetResponse", "SetResponse", "RmResponse"},
                         ok : BOOLEAN,
                         value : {<<>>} \cup {<<v>> : v \in Values},
                         msg : {"", "Key not found", "Unexpected command type",
                                "Io", "Serde"}] :
                   /\ conns'[c].outbox = Append(conns[c].outbox, r)
                   /\ r.kind = ResponseKind(conns[c].sent[FramesRead(c)].type)
                   /\ r.ok <=> result[Opener].tag # "Err"
                   /\ r.ok => r.msg = ""
                   /\ (r.kind # "GetResponse" \/ ~r.ok) => r.value = <<>>

\* C21: every request the server reads is answered by at most one response, by
\* exactly one once its engine call has returned and the connection is still
\* served; the response is of the type of the request's kind and is the Ok
\* variant iff the engine call succeeded.
C21_ResponseKind == [](C21_OneEach) /\ [][C21_Respond]_vars

\* One connection has got a SetResponse::Ok and then an RmResponse::Err.
C21_Witness ==
    \E c \in Conns :
        /\ Len(conns[c].outbox) = 2
        /\ conns[c].outbox[1].kind = "SetResponse" /\ conns[c].outbox[1].ok
        /\ conns[c].outbox[2].kind = "RmResponse" /\ ~conns[c].outbox[2].ok

\* The engine call KvsServer::serve makes for a request frame.
CallOf(f) ==
    [op |-> IF f.type = "Get" THEN "get" ELSE IF f.type = "Set" THEN "set" ELSE "rm",
     key |-> f.key,
     value |-> f.value]

C22_InOrder ==
    \A c \in Conns :
        InCall(c) =>
            /\ Len(conns[c].outbox) = FramesRead(c) - 1
            /\ cur[Opener] = CallOf(conns[c].sent[FramesRead(c)])

C22_Step ==
    /\ (cur'[Opener] # cur[Opener] /\ cur'[Opener] # NoCall) =>
           /\ stream \in Conns
           /\ Len(conns[stream].outbox) = FramesRead(stream)
           /\ cur'[Opener] = CallOf(conns[stream].sent[FramesRead(stream) + 1])
    /\ \A c \in Conns :
           conns'[c].outbox # conns[c].outbox =>
               conns'[c].outbox =
                   Append(conns[c].outbox,
                          Response(CallOf(conns[c].sent[Len(conns[c].outbox) + 1]),
                                   result[Opener]))

\* C22: within a connection the i-th response written answers the i-th request
\* read, and the engine call of a request starts only when every earlier
\* request of the connection has its response in the socket.
C22_ResponseOrder == [](C22_InOrder) /\ [][C22_Step]_vars

\* A Set and a Get of the same key were sent on one connection and both are
\* answered: the second response carries the value the first request stored.
C22_Witness ==
    \E c \in Conns :
        /\ Len(conns[c].outbox) = 2
        /\ conns[c].sent[1].type = "Set" /\ conns[c].sent[2].type = "Get"
        /\ conns[c].sent[1].key = conns[c].sent[2].key
        /\ conns[c].outbox[2].value = <<conns[c].sent[1].value>>

\* Calls of the client of connection c that have returned.
Returned(c) == Len(conns[c].replies)
Calling(c) == conns[c].call # NoRequest

\* One request frame per call, at most one call in flight, one response frame
\* read per returned call, and the i-th reply is the i-th response of the
\* server read as the response type of the i-th request.
C23_Frames ==
    \A c \in Conns :
        /\ Len(conns[c].sent) = Returned(c) + (IF Calling(c) THEN 1 ELSE 0)
        /\ Calling(c) => conns[c].call = conns[c].sent[Len(conns[c].sent)]
        /\ conns[c].got <= Returned(c)
        /\ conns[c].got <= Len(conns[c].outbox)
        /\ (conns[c].got < Returned(c)) => conns[c].state = "closed"
        /\ \A i \in 1..conns[c].got :
               conns[c].replies[i] =
                   Decode(ResponseKind(conns[c].sent[i].type),
                          Encode(conns[c].outbox[i]))

\* C23: every client call writes one request frame and reads one response
\* frame, which it decodes as the response type of its own kind (GetResponse
\* for get, SetResponse for set, RmResponse for remove); requests and responses
\* of a client stay in step.
C23_ClientInStep ==
    /\ C23_Frames
    /\ \A c \in Conns :
           Calling(c) => conns[c].decode = ResponseKind(conns[c].call.type)

\* No client has sent a Set of key k.
NeverSet(k) ==
    \A d \in Conns : \A j \in 1..Len(conns[d].sent) :
        ~(conns[d].sent[j].type = "Set" /\ conns[d].sent[j].key = k)

\* C24: an error of the engine reaches the client as a failure whose message is
\* the display text of the error: remove of a key that was never set fails with
\* "Key not found" through client and server; get of such a key returns None
\* and no get fails.
C24_ErrorsVerbatim ==
    \A c \in Conns : \A i \in 1..conns[c].got :
        LET f == conns[c].sent[i]
            r == conns[c].replies[i]
        IN  /\ ~conns[c].outbox[i].ok => r = StringError(conns[c].outbox[i].msg)
            /\ conns[c].outbox[i].ok => r.tag # "Err"
            /\ r.tag = "Err" => f.type = "Rm" /\ r.err = "Key not found"
            /\ (f.type = "Rm" /\ NeverSet(f.key)) => r = StringError("Key not found")
            /\ f.type = "Get" => r.tag \in {"OkNone", "OkSome"}
            /\ (f.type = "Get" /\ NeverSet(f.key)) => r = OkNone

\* A client has removed a key that was never set and got "Key not found", then
\* read the key and got None.
C24_Witness ==
    \E c \in Conns :
        /\ conns[c].got = 2
        /\ conns[c].sent[1].type = "Rm" /\ conns[c].sent[2].type = "Get"
        /\ conns[c].sent[1].key = conns[c].sent[2].key
        /\ conns[c].replies[1] = StringError("Key not found")
        /\ conns[c].replies[2] = OkNone

\* ------------------------------------------------ claims on the pool size
\* Threads in the loop of run_tasks, and threads that unwind from a panic.
Able == Cardinality({w \in PoolThreads : worker[w] \in {"recv", "run"}})
Unwinding == Cardinality({w \in PoolThreads : worker[w] = "unwind"})
Panicked == Cardinality({j \in JobIds : job[j].state = "panicked"})

C30_Size ==
    /\ threads = 0 =>
           /\ new_pc \in {"check", "err"}
           /\ task_sender = "none"
           /\ Started = 0
    /\ new_pc = "ok" =>
           /\ threads >= 1
           /\ Started = threads + Panicked - Unwinding
    /\ (new_pc = "ok" /\ task_sender = "alive") =>
           /\ Able <= threads
           /\ Able + Unwinding = threads

\* C30: new(0) fails and starts no thread; new(n) starts n threads; while the
\* handle is alive at most n threads are in run_tasks, fewer only while a
\* panicking thread has not yet started its replacement, which it always does;
\* a thread that leaves run_tasks normally starts none.
C30_FixedParallelism == [](C30_Size) /\ <>[](Unwinding = 0)

\* A pool of two threads is back at two after a job panicked and the start of
\* the replacement failed once.
C30_Witness ==
    /\ new_pc = "ok" /\ task_sender = "alive"
    /\ threads = 2 /\ Able = 2
    /\ Panicked = 1 /\ Started = 3
    /\ spawnFaults = 0

\* ------------------------------------------- claims on the queue discipline
\* Jobs are numbered in the order of the calls of spawn.
Holders(j) == {w \in PoolThreads : task[w] = j}

C31_Queue ==
    /\ \A i, k \in 1..Len(queue) : i < k => queue[i] < queue[k]
    /\ \A j \in JobIds :
           /\ job[j].state # "rejected"
           /\ job[j].state = "queued" <=> \E i \in 1..Len(queue) : queue[i] = j
           /\ job[j].state = "running" <=> Holders(j) # {}
           /\ Cardinality(Holders(j)) <= 1
    /\ \A w \in PoolThreads : task[w] # NoJob <=> worker[w] = "run"

C31_Step ==
    /\ \A j \in JobIds :
           job'[j].state # job[j].state =>
               \/ job[j].state = "none" /\ job'[j].state = "queued"
               \/ /\ job[j].state = "queued" /\ job'[j].state = "running"
                  /\ \A i \in 1..(j - 1) : job[i].state \notin {"none", "queued"}
               \/ job[j].state = "running" /\ job'[j].state \in {"done", "panicked"}
    /\ \A w \in PoolThreads :
           (task'[w] # task[w] /\ task'[w] # NoJob) =>
               /\ task[w] = NoJob
               /\ worker[w] = "recv"
               /\ queue # <<>> /\ task'[w] = Head(queue)

\* C31: jobs leave the queue in the order in which they were submitted, every
\* submitted job is queued until one thread takes it and is never taken twice,
\* also when another job panics, and a thread takes a job only when it runs none.
C31_QueueDiscipline == [](C31_Queue) /\ [][C31_Step]_vars

\* Of three jobs the first has panicked, the second is done and the third is
\* running on a thread that replaced a panicked one.
C31_Witness ==
    /\ job[1].state = "panicked"
    /\ job[2].state = "done"
    /\ job[3].state = "running"
    /\ threads = 2
    /\ \E w \in PoolThreads : w > threads /\ task[w] = 3

\* ------------------------------------------------ claims on the segments
\* The records of generation g, in a state where the directory is fs.
Recs(fs, g) == IF g \in DOMAIN fs THEN fs[g].recs ELSE <<>>

\* Generation g holds after the step what it held before it, and maybe more.
Extended(g) ==
    /\ Len(Recs(files', g)) >= Len(Recs(files, g))
    /\ SubSeq(Recs(files', g), 1, Len(Recs(files, g))) = Recs(files, g)

Grown(g) == Len(Recs(files', g)) > Len(Recs(files, g))

C32_Step ==
    \A g \in DOMAIN files' :
        /\ Extended(g)
        /\ Grown(g) => (g = current_gen /\ g = current_gen')

\* C32: segments are append-only and only the current one grows: a segment is
\* appended to only while its generation equals current_gen, a segment of a
\* lower generation is never written again, and bytes already present in a
\* segment are never modified.
C32_AppendOnly == [][C32_Step]_vars

\* ------------------------------------------------------------- the launcher
\* const DEFAULT_STORAGE_ENGINE: Engine = Engine::Kvs (kvs-server.rs:24).
DEFAULT_STORAGE_ENGINE == "Kvs"

\* serde_json::to_writer(_, &engine): a unit variant is written as its name in
\* double quotes.
Ser(e) ==
    IF e = "Kvs" THEN <<"\"", "K", "v", "s", "\"">>
    ELSE <<"\"", "S", "l", "e", "d", "\"">>

\* OpenOptions::new().create(true).write(true).open(..) and a write of the
\* bytes b (kvs-server.rs:104-109): the file is created if absent, it is not
\* truncated, and b replaces its first Len(b) bytes.
Written(f, b) ==
    [exists |-> TRUE,
     bytes |-> b \o SubSeq(f.bytes, Len(b) + 1, Len(f.bytes))]

\* serde_json::from_reader::<_, Engine>: one JSON string that is a variant's
\* name, followed by nothing; anything else is an error.
Des(b) ==
    IF \E e \in Engines : b = Ser(e) THEN CHOOSE e \in Engines : b = Ser(e)
    ELSE "Err"

\* current_engine (kvs-server.rs:125-137), Err standing for Err(_).
current_engine(f) == IF ~f.exists THEN NoEngine ELSE Des(f.bytes)

\* let cur_engine = match current_engine() { Ok(eng) => eng, Err(e) => None }
\* (kvs-server.rs:78-84).
CurEngine(r) == IF r = "Err" THEN NoEngine ELSE r

\* cli.engine.is_some() && cur_engine.is_some() && cli.engine != cur_engine
\* (kvs-server.rs:86).
WrongEngine(c, e) == c # NoEngine /\ e # NoEngine /\ c # e

\* cli.engine.unwrap_or(DEFAULT_STORAGE_ENGINE) (kvs-server.rs:92).
UnwrapOr(c) == IF c = NoEngine THEN DEFAULT_STORAGE_ENGINE ELSE c

\* kvs-server is started with or without --engine (Cli::parse, kvs-server.rs:75).
MainStart(a) ==
    /\ lpc = "stopped"
    /\ startsLeft > 0
    /\ startsLeft' = startsLeft - 1
    /\ cli' = a
    /\ cur_engine' = NoEngine
    /\ chosen' = NoEngine
    /\ exit_code' = "none"
    /\ lpc' = "main"
    /\ UNCHANGED <<engine_file, data, backend>>

\* main reads the marker (kvs-server.rs:78-84).
MainCurrent ==
    /\ lpc = "main"
    /\ cur_engine' = CurEngine(current_engine(engine_file))
    /\ lpc' = "check"
    /\ UNCHANGED <<engine_file, data, cli, chosen, exit_code, backend, startsLeft>>

\* error!("Wrong engine!"); exit(1) (kvs-server.rs:86-90).
MainRefuse ==
    /\ lpc = "check"
    /\ WrongEngine(cli, cur_engine)
    /\ exit_code' = "1"
    /\ lpc' = "stopped"
    /\ UNCHANGED <<engine_file, data, cli, cur_engine, chosen, backend, startsLeft>>

\* main goes on to run(engine, ..) (kvs-server.rs:86-95).
MainRun ==
    /\ lpc = "check"
    /\ ~WrongEngine(cli, cur_engine)
    /\ chosen' = UnwrapOr(cli)
    /\ lpc' = "run"
    /\ UNCHANGED <<engine_file, data, cli, cur_engine, exit_code, backend, startsLeft>>

\* run writes the marker (kvs-server.rs:104-109).
RunMarker ==
    /\ lpc = "run"
    /\ engine_file' = Written(engine_file, Ser(chosen))
    /\ lpc' = "open"
    /\ UNCHANGED <<data, cli, cur_engine, chosen, exit_code, backend, startsLeft>>

\* run opens the backend in the directory and serves (kvs-server.rs:111-122).
RunOpen ==
    /\ lpc = "open"
    /\ data' = data \cup {chosen}
    /\ backend' = chosen
    /\ lpc' = "serving"
    /\ UNCHANGED <<engine_file, cli, cur_engine, chosen, exit_code, startsLeft>>

\* NaiveThreadPool::new, KvStore::open or sled::open fails: run returns the
\* error and main exits with 1 (kvs-server.rs:111-115, 96-100).
RunOpenFail ==
    /\ lpc = "open"
    /\ exit_code' = "1"
    /\ lpc' = "stopped"
    /\ UNCHANGED <<engine_file, data, cli, cur_engine, chosen, backend, startsLeft>>

\* server.run returns an error (kvs-server.rs:96-100), or the process is killed.
ServerExit ==
    /\ lpc = "serving"
    /\ exit_code' \in {"1", "killed"}
    /\ lpc' = "stopped"
    /\ UNCHANGED <<engine_file, data, cli, cur_engine, chosen, backend, startsLeft>>

InitLauncher ==
    /\ InitEngine /\ reopensLeft = 0 /\ faultsLeft = 0 /\ NoPool /\ NoServer
    /\ engine_file = NoFile
    /\ data = {}
    /\ lpc = "stopped"
    /\ cli = NoEngine
    /\ cur_engine = NoEngine
    /\ chosen = NoEngine
    /\ exit_code = "none"
    /\ backend = NoEngine
    /\ startsLeft = MaxStarts

NextLauncher ==
    \/ \E a \in Engines \cup {NoEngine} : MainStart(a) /\ UNCHANGED <<store, pool, server>>
    \/ MainCurrent /\ UNCHANGED <<store, pool, server>>
    \/ MainRefuse /\ UNCHANGED <<store, pool, server>>
    \/ MainRun /\ UNCHANGED <<store, pool, server>>
    \/ RunMarker /\ UNCHANGED <<store, pool, server>>
    \/ RunOpen /\ UNCHANGED <<store, pool, server>>
    \/ RunOpenFail /\ UNCHANGED <<store, pool, server>>
    \/ ServerExit /\ UNCHANGED <<store, pool, server>>

\* Starts of kvs-server in one directory, one process at a time.
SpecLauncher == InitLauncher /\ [][NextLauncher]_vars

\* ------------------------------------------------- claims on the launcher
\* The backend the process at the check is about to run.
AboutToRun == UnwrapOr(cli)

C33_Refuse ==
    (lpc = "check" /\ lpc' # lpc) =>
        \A x \in Engines :
            (current_engine(engine_file) = x /\ AboutToRun # x) =>
                /\ lpc' = "stopped" /\ exit_code' = "1"
                /\ engine_file' = engine_file
                /\ data' = data

C33_NamesRun == backend # NoEngine => current_engine(engine_file) = backend

\* C33: a start in a directory whose marker names backend X exits with 1,
\* before it opens an engine or rewrites the marker, whenever the backend it is
\* about to run (--engine, or the default without it) is not X; and the marker
\* always names the backend that was run.
C33_MismatchRefused == [][C33_Refuse]_vars /\ [](C33_NamesRun)

\* ------------------------------------------ the single-threaded store (kv.rs)
\* KvStore of kv.rs has the fields of the concurrent engine's writer: files is
\* its directory, wreaders the keys of its readers map, wgen and wpos its
\* writer; the one thread that owns it is Opener.
KvIdle == \A t \in Threads : pc[t] = "idle"

\* What a call of the store leaves alone.
kvframe == <<safe_point, lock, readers, cur, op_pos, history, reopensLeft, faultsLeft>>

\* The dead bytes remove accounts for: self.uncompacted += old_op.len
\* (kv.rs:105-106).
KvRemoveDead(idx, k) == idx[k].len

\* After the index update of set or remove (kv.rs:72-76, kv.rs:109-113).
KvAfterWrite(u) ==
    /\ pc' = [pc EXCEPT ![Opener] = IF NeedsCompaction(u) THEN "kv_compact" ELSE "idle"]
    /\ result' = [result EXCEPT ![Opener] = IF NeedsCompaction(u) THEN NoResult ELSE Ok]

\* KvStore::set (kv.rs:58-77), up to the call of compact.
KvSet(k, v) ==
    /\ KvIdle
    /\ opsLeft > 0
    /\ opsLeft' = opsLeft - 1
    /\ LET op == SetOp(k, v)
       IN  /\ files' = AppendFlushed(files, wgen, op)
           /\ wpos' = wpos + SerLen(op)
           /\ index' = IndexInsert(index, k, OperationPos(current_gen, wpos, wpos'))
    /\ uncompacted' = uncompacted + (IF k \in DOMAIN index THEN index[k].len ELSE 0)
    /\ KvAfterWrite(uncompacted')
    /\ UNCHANGED <<current_gen, wgen, wreaders, comp, kvframe>>

\* KvStore::remove (kv.rs:99-117), up to the call of compact.
KvRemove(k) ==
    /\ KvIdle
    /\ opsLeft > 0
    /\ opsLeft' = opsLeft - 1
    /\ IF k \in DOMAIN index
       THEN /\ files' = AppendFlushed(files, wgen, RmOp(k))
            /\ wpos' = wpos + SerLen(RmOp(k))
            /\ index' = IndexRemove(index, k)
            /\ uncompacted' = uncompacted + KvRemoveDead(index, k)
            /\ KvAfterWrite(uncompacted')
       ELSE /\ result' = [result EXCEPT ![Opener] = Err("KeyNotFound")]
            /\ UNCHANGED <<files, wpos, index, uncompacted, pc>>
    /\ UNCHANGED <<current_gen, wgen, wreaders, comp, kvframe>>

\* KvStore::get (kv.rs:80-96).
KvGet(k) ==
    /\ KvIdle
    /\ result' = [result EXCEPT ![Opener] =
                     IF k \notin DOMAIN index THEN OkNone
                     ELSE GetResult(ReadAt(index[k]))]
    /\ UNCHANGED <<engine, lock, readers, comp, pc, cur, op_pos, history, budget>>

\* The keys of the index in the order of BTreeMap::values_mut.
LiveKeys == SelectSeq(KeySeq, LAMBDA k : k \in DOMAIN index)

\* What the loop of compact writes to the output segment (kv.rs:129-142): the
\* bytes of every record the index names, in key order.
KvOutput == [i \in 1..Len(LiveKeys) |-> Entry(ReadAt(index[LiveKeys[i]]).op,
                                              index[LiveKeys[i]].len)]

\* KvStore::compact (kv.rs:120-159), and with it the set or remove that called it.
KvCompact ==
    /\ pc[Opener] = "kv_compact"
    /\ LET compaction_gen == current_gen + 1
           created == new_log_file(new_log_file(files, current_gen + 2), compaction_gen)
           stale_gens == {g \in wreaders : g < compaction_gen}
       IN  /\ current_gen' = current_gen + 2
           /\ wgen' = current_gen'
           /\ wpos' = 0
           /\ index' = [k \in DOMAIN index |->
                           LET i == CHOOSE x \in 1..Len(LiveKeys) : LiveKeys[x] = k
                           IN  OperationPos(compaction_gen, Offset(KvOutput, i),
                                            Offset(KvOutput, i + 1))]
           /\ files' = [g \in DOMAIN created |->
                           IF g = compaction_gen
                           THEN [exists |-> TRUE, recs |-> KvOutput,
                                 synced |-> Len(KvOutput)]
                           ELSE IF g \in stale_gens
                           THEN [created[g] EXCEPT !.exists = FALSE]
                           ELSE created[g]]
           /\ wreaders' = (wreaders \cup {compaction_gen, current_gen'}) \ stale_gens
           /\ comp' = [gen |-> compaction_gen, new_pos |-> Offset(KvOutput, Len(KvOutput) + 1),
                       next |-> Len(KeySeq) + 1]
    /\ uncompacted' = 0
    /\ pc' = [pc EXCEPT ![Opener] = "idle"]
    /\ result' = [result EXCEPT ![Opener] = Ok]
    /\ UNCHANGED <<kvframe, opsLeft>>

\* One record of load's loop (persist.rs:81-97) on the replay state st.
PersistRecord(gen, recs, i, st) ==
    LET e == recs[i]
        pos == Offset(recs, i)
        new_pos == Offset(recs, i + 1)
        k == e.op.key
    IN  IF ~Whole(e) THEN [st EXCEPT !.err = TRUE]
        ELSE IF e.op.type = "Set"
        THEN [st EXCEPT !.index = IndexInsert(st.index, k, OperationPos(gen, pos, new_pos)),
                        !.uncompacted = @ + (IF k \in DOMAIN st.index
                                             THEN st.index[k].len ELSE 0)]
        ELSE [st EXCEPT !.index = IndexRemove(st.index, k),
                        !.uncompacted = @ + (IF k \in DOMAIN st.index
                                             THEN st.index[k].len ELSE 0)
                                          + (new_pos - pos)]

RECURSIVE PersistFrom(_, _, _, _)
PersistFrom(gen, recs, i, st) ==
    IF i > Len(recs) \/ st.err THEN st
    ELSE PersistFrom(gen, recs, i + 1, PersistRecord(gen, recs, i, st))

\* load of persist.rs (persist.rs:77-99): replay one segment into the index.
persist_load(gen, recs, st) == PersistFrom(gen, recs, 1, st)

RECURSIVE KvReplay(_, _, _)
\* The loop of KvStore::open over gen_list (kv.rs:38-42), in ascending order.
KvReplay(fs, gens, st) ==
    IF gens = {} \/ st.err THEN st
    ELSE LET g == Min(gens)
         IN  KvReplay(fs, gens \ {g}, persist_load(g, fs[g].recs, st))

\* The store is dropped and KvStore::open runs on the directory again
\* (kv.rs:28-55).
KvOpen ==
    /\ KvIdle
    /\ reopensLeft > 0
    /\ reopensLeft' = reopensLeft - 1
    /\ LET gens == {g \in DOMAIN files : files[g].exists}
           st == KvReplay(files, gens,
                          [index |-> EmptyIndex, uncompacted |-> 0, err |-> FALSE])
       IN  /\ ~st.err
           /\ index' = st.index
           /\ uncompacted' = st.uncompacted
           /\ current_gen' = FirstGen(gens)
           /\ wgen' = current_gen'
           /\ files' = new_log_file(files, current_gen')
           /\ wreaders' = gens \cup {current_gen'}
    /\ wpos' = 0
    /\ comp' = NoComp
    /\ result' = [result EXCEPT ![Opener] = NoResult]
    /\ UNCHANGED <<safe_point, lock, readers, pc, cur, op_pos, history, opsLeft, faultsLeft>>

\* KvStore::open of kv.rs on an empty directory.
InitKv ==
    /\ files = [g \in {1} |-> NewFile]
    /\ index = EmptyIndex
    /\ current_gen = 1
    /\ uncompacted = 0
    /\ wgen = 1
    /\ wpos = 0
    /\ wreaders = {1}
    /\ safe_point = 0
    /\ lock = NoThread
    /\ readers = [t \in Threads |-> {}]
    /\ pc = [t \in Threads |-> "idle"]
    /\ cur = [t \in Threads |-> NoCall]
    /\ op_pos = [t \in Threads |-> NoPos]
    /\ comp = NoComp
    /\ result = [t \in Threads |-> NoResult]
    /\ kvmap = [k \in Keys |-> OkNone]
    /\ obs = [t \in Threads |-> NoObs]
    /\ cview = NoView
    /\ wview = NoView
    /\ wsnap = NoSnap
    /\ reopened = NoView
    /\ opsLeft = MaxOps
    /\ reopensLeft = MaxReopens
    /\ faultsLeft = 0
    /\ NoPool /\ NoServer /\ NoLauncher

NextKv ==
    \/ \E k \in Keys, v \in Values : KvSet(k, v) /\ UNCHANGED outside
    \/ \E k \in Keys : KvRemove(k) /\ UNCHANGED outside
    \/ \E k \in Keys : KvGet(k) /\ UNCHANGED outside
    \/ KvCompact /\ UNCHANGED outside
    \/ KvOpen /\ UNCHANGED outside

\* The store of kv.rs, used by one thread and closed and opened again.
SpecKv == InitKv /\ [][NextKv]_vars

\* ------------------------------------------- claims on the dead-byte counter
\* The directory is closed and opened again in this step.
Reopening == reopensLeft' < reopensLeft

\* C34: after successful set and remove calls that trigger no compaction,
\* closing and reopening the directory yields the dead-byte counter the store
\* held before the close.
C34_ReplayAgrees == [][(Reopening /\ comp = NoComp) => uncompacted' = uncompacted]_vars
====
